---------------------------- MODULE Spec2Model ----------------------------
(***************************************************************************)
(* A model of the risk-metric visualization scripts (KaFaiLi/Viz).         *)
(*                                                                         *)
(* Part 1 (specification Spec): the metric resolver,                       *)
(* DataVisualizer.get_all_related_metrics of src/src/SGMR_visualizer.py,   *)
(* with the override table of src/src/special_metrics_rules.py.            *)
(*                                                                         *)
(* A metric name is a sequence of one-character strings, so that the       *)
(* regular expressions, the case folding and the string comparison of the  *)
(* code act on characters, as they do in Python.                           *)
(***************************************************************************)
EXTENDS Integers, Sequences, FiniteSets, TLC

\* ------------------------------------------------------------------------
\* Characters
\* ------------------------------------------------------------------------

Digits == <<"0", "1", "2", "3", "4", "5", "6", "7", "8", "9">>

UpperLetters == <<"A", "B", "C", "D", "E", "F", "G", "H", "I", "J", "K", "L", "M",
                  "N", "O", "P", "Q", "R", "S", "T", "U", "V", "W", "X", "Y", "Z">>

LowerLetters == <<"a", "b", "c", "d", "e", "f", "g", "h", "i", "j", "k", "l", "m",
                  "n", "o", "p", "q", "r", "s", "t", "u", "v", "w", "x", "y", "z">>

\* The characters of the names, in code-point order (Python compares str by
\* code point): digits < upper-case letters < "[" < "]" < lower-case letters.
CodePoints == Digits \o UpperLetters \o <<"[", "]">> \o LowerLetters

Range(s) == {s[i] : i \in DOMAIN s}

IndexIn(s, c) == CHOOSE i \in DOMAIN s : s[i] = c

Ord(c) == IndexIn(CodePoints, c)

IsDigit(c) == c \in Range(Digits)

IsUpper(c) == c \in Range(UpperLetters)

IsLetter(c) == c \in Range(UpperLetters) \cup Range(LowerLetters)

DigitValue(c) == IndexIn(Digits, c) - 1

\* str.lower() on one character
LowerChar(c) == IF IsUpper(c) THEN LowerLetters[IndexIn(UpperLetters, c)] ELSE c

\* str.lower()
Lower(s) == [i \in DOMAIN s |-> LowerChar(s[i])]

\* a == b for one character under re.IGNORECASE
SameCharCI(a, b) == LowerChar(a) = LowerChar(b)

\* Python's < on str
StrLess(a, b) ==
    \E k \in 1..(Len(a) + 1) :
        /\ k <= Len(b)
        /\ \A i \in 1..(k - 1) : a[i] = b[i]
        /\ \/ k = Len(a) + 1
           \/ (k <= Len(a) /\ Ord(a[k]) < Ord(b[k]))

\* Python's "in" on str: sub occurs in s
Contains(s, sub) ==
    \E i \in 1..(Len(s) - Len(sub) + 1) :
        \A k \in 1..Len(sub) : s[i + k - 1] = sub[k]

\* int() of a string of decimal digits
RECURSIVE ParseInt(_)
ParseInt(ds) ==
    IF ds = <<>> THEN 0
    ELSE 10 * ParseInt(SubSeq(ds, 1, Len(ds) - 1)) + DigitValue(ds[Len(ds)])

\* ------------------------------------------------------------------------
\* Regular expressions (Python re.search), as far as the code uses them
\* ------------------------------------------------------------------------

\* Python's None for a str: no match. (None and '' are both false in the tests
\* the code makes of it, and no match of the code's patterns is empty.)
None == <<>>

\* lit occurs in m at position i (ci: under re.IGNORECASE)
MatchLit(m, i, lit, ci) ==
    /\ i + Len(lit) - 1 <= Len(m)
    /\ \A k \in 1..Len(lit) :
           IF ci THEN SameCharCI(m[i + k - 1], lit[k]) ELSE m[i + k - 1] = lit[k]

\* [DWMY]
IsUnit(c, ci) == (IF ci THEN LowerChar(c) ELSE c) \in
                     {IF ci THEN LowerChar(u) ELSE u : u \in {"D", "W", "M", "Y"}}

\* \d+[DWMY] at position i: the positions of the unit letter that ends a match
TenorUnitAt(m, i, ci) ==
    {e \in (i + 1)..Len(m) : /\ \A k \in i..(e - 1) : IsDigit(m[k])
                             /\ IsUnit(m[e], ci)}

\* The three kinds of pattern element of the rules:
\*   (a|b|...)         one of several literals
\*   (\d+[DWMY])?      an optional tenor
\*   [A-Z]{3}          three letters
Alt(lits) == [kind |-> "alt", lits |-> lits]

OptTenor == [kind |-> "opt_tenor", lits |-> {}]

Letters3 == [kind |-> "letters3", lits |-> {}]

\* The positions that follow a match of element el at position i of m
ElemEnds(el, m, i, ci) ==
    CASE el.kind = "alt" ->
             {i + Len(l) : l \in {x \in el.lits : MatchLit(m, i, x, ci)}}
      [] el.kind = "opt_tenor" ->
             {i} \cup {e + 1 : e \in TenorUnitAt(m, i, ci)}
      [] el.kind = "letters3" ->
             IF /\ i + 2 <= Len(m)
                /\ \A k \in i..(i + 2) : IF ci THEN IsLetter(m[k]) ELSE IsUpper(m[k])
             THEN {i + 3} ELSE {}

\* elements k.. of elems match m from position i on
RECURSIVE MatchFrom(_, _, _, _, _)
MatchFrom(elems, k, m, i, ci) ==
    IF k > Len(elems) THEN TRUE
    ELSE \E j \in ElemEnds(elems[k], m, i, ci) : MatchFrom(elems, k + 1, m, j, ci)

\* A pattern: anchored is a leading ^
Pattern(anchored, elems) == [present |-> TRUE, anchored |-> anchored, elems |-> elems]

\* rules.get(...) of a key the rule does not have: None
NoPattern == [present |-> FALSE, anchored |-> FALSE, elems |-> <<>>]

\* re.search(pat, m) is not None
re_search(pat, m, ci) ==
    \E i \in (IF pat.anchored THEN {1} ELSE 1..(Len(m) + 1)) :
        MatchFrom(pat.elems, 1, m, i, ci)

\* ------------------------------------------------------------------------
\* src/src/special_metrics_rules.py
\* ------------------------------------------------------------------------

VaR == <<"V", "a", "R">>
SVaR == <<"S">> \o VaR
STTH == <<"S", "T", "T", "H">>
FTQ == <<"F", "T", "Q">>
IRSensi == <<"I", "R", "S", "e", "n", "s", "i">>
FX == <<"F", "X">>
CIMSensiBOR == <<"C", "I", "M", "S", "e", "n", "s", "i", "B", "O", "R">>
Japan == <<"J", "a", "p", "a", "n">>
globJapan == <<"g", "l", "o", "b">> \o Japan
JPY == <<"J", "P", "Y">>
ByCurve == <<"B", "y", "C", "u", "r", "v", "e">>
EUR == <<"E", "U", "R">>

\* the rule of one mother metric
RuleOf(key) ==
    CASE key = VaR ->
             [include_pattern |-> Pattern(TRUE, <<Alt({VaR, SVaR, STTH})>>),
              exclude_pattern |-> NoPattern]
      [] key = FTQ ->
             [include_pattern |-> Pattern(TRUE, <<Alt({FTQ}), OptTenor>>),
              exclude_pattern |-> Pattern(FALSE, <<Alt({globJapan, Japan}), OptTenor>>)]
      [] key = IRSensi ->
             [include_pattern |-> Pattern(TRUE, <<Alt({IRSensi}), OptTenor>>),
              exclude_pattern |-> Pattern(FALSE, <<Alt({JPY, ByCurve}), OptTenor>>)]
      [] key = FX ->
             [include_pattern |-> Pattern(TRUE, <<Alt({FX}), Letters3>>),
              exclude_pattern |-> NoPattern]
      [] key = CIMSensiBOR ->
             [include_pattern |-> Pattern(TRUE, <<Alt({CIMSensiBOR}), OptTenor>>),
              exclude_pattern |-> Pattern(FALSE, <<Alt({EUR}), OptTenor>>)]

\* the dict: its keys are compared as they are written ("VaR" is a key, "var" is not)
special_metric_rules == [key \in {VaR, FTQ, IRSensi, FX, CIMSensiBOR} |-> RuleOf(key)]

\* ------------------------------------------------------------------------
\* src/src/SGMR_visualizer.py: DataVisualizer
\* ------------------------------------------------------------------------

\* re.search(r'(\d+[DWMY])', metric_name): group 1 of the leftmost match, or None
_extract_maturity(metric_name) ==
    LET starts == {i \in 1..Len(metric_name) : TenorUnitAt(metric_name, i, FALSE) # {}}
    IN  IF starts = {} THEN None
        ELSE LET i == CHOOSE x \in starts : \A y \in starts : x <= y
                 e == CHOOSE x \in TenorUnitAt(metric_name, i, FALSE) : TRUE
             IN  SubSeq(metric_name, i, e)

\* re.search(r'\[([A-Z]{3})\]', metric_name): group 1 of the leftmost match, or None
_extract_currency(metric_name) ==
    LET starts == {i \in 1..(Len(metric_name) - 4) :
                      /\ metric_name[i] = "["
                      /\ \A k \in (i + 1)..(i + 3) : IsUpper(metric_name[k])
                      /\ metric_name[i + 4] = "]"}
    IN  IF starts = {} THEN None
        ELSE LET i == CHOOSE x \in starts : \A y \in starts : x <= y
             IN  SubSeq(metric_name, i + 1, i + 3)

\* The months of a tenor, in units of 1/60 month so that value / 4 and
\* value / 30 are whole numbers. Python computes them as floats; a correctly
\* rounded quotient orders as the exact one does.
_convert_maturity_to_months(maturity) ==
    LET value == ParseInt(SubSeq(maturity, 1, Len(maturity) - 1))
        unit == maturity[Len(maturity)]
    IN  CASE unit = "Y" -> value * 12 * 60
          [] unit = "M" -> value * 60
          [] unit = "W" -> value * 15
          [] unit = "D" -> value * 2

\* all_metrics: the rmRiskMetricName values of the rows of strana_node,
\* pandas' unique(): each once, in order of first appearance
RECURSIVE all_metrics(_, _)
all_metrics(rows, strana_node) ==
    IF rows = <<>> THEN <<>>
    ELSE LET front == all_metrics(SubSeq(rows, 1, Len(rows) - 1), strana_node)
             r == rows[Len(rows)]
         IN  IF r.stranaNodeName = strana_node /\ r.rmRiskMetricName \notin Range(front)
             THEN Append(front, r.rmRiskMetricName)
             ELSE front

\* A mutant of related_metrics: the include pattern is applied to the names
\* that contain the mother metric, not to the whole pool
related_metrics_within_substring(rows, strana_node, mother_metric) ==
    LET pool == all_metrics(rows, strana_node)
        ContainsMother(m) == Contains(Lower(m), Lower(mother_metric))
    IN  IF mother_metric \in DOMAIN special_metric_rules
        THEN LET rules == special_metric_rules[mother_metric]
                 Included(m) == re_search(rules.include_pattern, m, TRUE)
                 NotExcluded(m) == ~re_search(rules.exclude_pattern, m, TRUE)
             IN  SelectSeq(SelectSeq(SelectSeq(pool, ContainsMother), Included), NotExcluded)
        ELSE SelectSeq(pool, ContainsMother)

\* lines 93-117: the related metrics, before they are sorted
\* (SelectSeq is the list comprehension [m for m in ... if ...])
related_metrics(rows, strana_node, mother_metric) ==
    LET pool == all_metrics(rows, strana_node)
        ContainsMother(m) == Contains(Lower(m), Lower(mother_metric))
    IN  IF mother_metric \in DOMAIN special_metric_rules
        THEN LET rules == special_metric_rules[mother_metric]
                 Included(m) == re_search(rules.include_pattern, m, TRUE)
                 NotExcluded(m) == ~re_search(rules.exclude_pattern, m, TRUE)
             IN  IF rules.include_pattern.present
                 THEN IF rules.exclude_pattern.present
                      THEN SelectSeq(SelectSeq(pool, Included), NotExcluded)
                      ELSE SelectSeq(pool, Included)
                 ELSE IF rules.exclude_pattern.present
                      THEN SelectSeq(SelectSeq(pool, ContainsMother), NotExcluded)
                      ELSE SelectSeq(pool, ContainsMother)
        ELSE SelectSeq(pool, ContainsMother)

\* A mutant of sort_key: the exact match is not put first
sort_key_no_exact(metric, mother_metric) ==
    LET maturity == _extract_maturity(metric)
        currency == _extract_currency(metric)
    IN  IF maturity # None THEN <<1, _convert_maturity_to_months(maturity)>>
        ELSE IF currency # None THEN <<2, currency>>
        ELSE <<3, metric>>

\* A mutant of sort_key: the currency is looked at before the maturity
sort_key_currency_first(metric, mother_metric) ==
    LET maturity == _extract_maturity(metric)
        currency == _extract_currency(metric)
    IN  IF Lower(metric) = Lower(mother_metric) THEN <<0, <<>>>>
        ELSE IF currency # None THEN <<2, currency>>
        ELSE IF maturity # None THEN <<1, _convert_maturity_to_months(maturity)>>
        ELSE <<3, metric>>

\* sort_key: a pair (group, value)
sort_key(metric, mother_metric) ==
    LET maturity == _extract_maturity(metric)
        currency == _extract_currency(metric)
    IN  IF Lower(metric) = Lower(mother_metric) THEN <<0, <<>>>>
        ELSE IF maturity # None THEN <<1, _convert_maturity_to_months(maturity)>>
        ELSE IF currency # None THEN <<2, currency>>
        ELSE <<3, metric>>

\* Python's < on two keys: the groups first; within group 1 the months, within
\* groups 2 and 3 the strings
KeyLess(a, b) ==
    \/ a[1] < b[1]
    \/ /\ a[1] = b[1]
       /\ CASE a[1] = 0 -> FALSE
            [] a[1] = 1 -> a[2] < b[2]
            [] OTHER -> StrLess(a[2], b[2])

\* sorted(seq, key=sort_key): stable, an element goes after those that are not greater
RECURSIVE sorted(_, _)
sorted(seq, mother_metric) ==
    IF seq = <<>> THEN <<>>
    ELSE LET front == sorted(SubSeq(seq, 1, Len(seq) - 1), mother_metric)
             x == seq[Len(seq)]
             before == {i \in DOMAIN front :
                           KeyLess(sort_key(x, mother_metric), sort_key(front[i], mother_metric))}
             at == IF before = {} THEN Len(front) + 1
                   ELSE CHOOSE i \in before : \A j \in before : i <= j
         IN  SubSeq(front, 1, at - 1) \o <<x>> \o SubSeq(front, at, Len(front))

get_all_related_metrics(rows, strana_node, mother_metric) ==
    sorted(related_metrics(rows, strana_node, mother_metric), mother_metric)

\* ------------------------------------------------------------------------
\* The resolver as a state machine: a DataVisualizer over a table of rows,
\* and one call of get_all_related_metrics
\* ------------------------------------------------------------------------

VARIABLES
    data,           \* DataVisualizer.data: the rows of the risk table, in file order
    rpc,            \* "ready": constructed; "returned": the call has returned
    strana_node,    \* the call's arguments
    mother_metric,
    result          \* the list the call returned

resolverVars == <<data, rpc, strana_node, mother_metric, result>>

\* a file: whether it exists, and its content
Absent == [exists |-> FALSE, content |-> <<>>]

FileOf(content) == [exists |-> TRUE, content |-> content]

\* ------------------------------------------------------------------------
\* The state of a run of main() (src/main.py)
\* ------------------------------------------------------------------------

VARIABLES
    config,             \* the configuration: the items of the dict, in order
    pc,                 \* where main(), or process_plots called alone, stands
    caller,             \* "main": process_plots was called by main(); "direct": alone
    risk_csv,           \* Input/fake_data.csv: "ok", "missing", "no_column" or "bad_date"
    marker,             \* output/timeseries_done.marker exists
    skip_timeseries,    \* main's local of that name
    plot_files_info,    \* the list main() hands to process_plots and to generate_index_html
    written,            \* the chart files written in this run, each with the call that wrote it
    index,              \* the file output/index.html
    pos,                \* process_plots: <<node, entry>> of the metric_config at hand
    futures,            \* create_time_series_plots: the submitted tasks, in order
    pending_futures,    \* create_time_series_plots: the tasks not yet handled
    logged              \* the errors logged so far

mainVars == <<config, pc, caller, risk_csv, marker, skip_timeseries, plot_files_info,
              written, index, pos, futures, pending_futures, logged>>

\* The state of the scenarios that call one function again and again
VARIABLES
    html_calls,         \* the calls made so far of update_dashboard_html and of update_main_html
    outcome,            \* what a call made alone gave: its value, or the exception it raised
    _EVENT_DATES_CACHE, \* main.py's global of that name
    auction_file,       \* the file Input/Auction Date.csv
    file_reads,         \* how many times pd.read_csv has read that file
    csv_files,          \* the CSV files of DEFAULT_CSV_DATASETS, by position
    dataset_index,      \* run_all_custom_visualizations: the datasets processed so far
    all_plot_configs,   \* run_all_custom_visualizations' list of that name
    product_name,       \* get_product_category: its argument
    mapping_config      \* load_and_preprocess_csv: its argument of that name

auxVars == <<html_calls, outcome, _EVENT_DATES_CACHE, auction_file, file_reads,
             csv_files, dataset_index, all_plot_configs, product_name, mapping_config>>

\* the value None of _EVENT_DATES_CACHE, and a list held in it
NoCache == [is_none |-> TRUE, value |-> <<>>]

Cached(event_dates) == [is_none |-> FALSE, value |-> event_dates]

\* no call of get_product_category is modelled
NoName == [is_str |-> TRUE, text |-> <<>>]

\* Input/Auction Date.csv does not exist
MissingFile == [state |-> "missing", rows |-> <<>>]

\* none of these calls has been made
AuxIdle ==
    /\ html_calls = [update_dashboard_html |-> 0, update_main_html |-> 0]
    /\ outcome = "none"
    /\ _EVENT_DATES_CACHE = NoCache
    /\ auction_file = MissingFile
    /\ file_reads = 0
    /\ csv_files = <<>>
    /\ dataset_index = 0
    /\ all_plot_configs = <<>>
    /\ product_name = NoName
    /\ mapping_config = <<>>

vars == <<resolverVars, mainVars, auxVars>>

\* main() has not been started
MainIdle ==
    /\ config = <<>>
    /\ pc = "idle"
    /\ caller = "none"
    /\ risk_csv = "ok"
    /\ marker = FALSE
    /\ skip_timeseries = FALSE
    /\ plot_files_info = <<>>
    /\ written = {}
    /\ index = Absent
    /\ pos = <<0, 0>>
    /\ futures = <<>>
    /\ pending_futures = {}
    /\ logged = {}
    /\ AuxIdle

\* the rows of a table: at most MaxRows
MaxRows == 3

\* Metric names of the generated data (src/Input/gen.py) and of the glossary
FTQ1Y == FTQ \o <<"1", "Y">>
FTQ52W == FTQ \o <<"5", "2", "W">>
FTQ_USD == FTQ \o <<"[", "U", "S", "D", "]">>
FTQ_EUR == FTQ \o <<"[", "E", "U", "R", "]">>
FTQ_EUR_1W == FTQ_EUR \o <<"[", "1", "W", "]">>
FTQglob == FTQ \o <<"g", "l", "o", "b">>
FTQglobJapan == FTQ \o globJapan
FXEUR == FX \o EUR
STTHH == STTH \o <<"H">>
ftq == Lower(FTQ)

Nodes == {"FICRATG10JGB", "FICASIRATFLO"}

\* The rows a table is drawn from: the first node carries every name, the
\* second two of them.
RowUniverse ==
    {[stranaNodeName |-> "FICRATG10JGB", rmRiskMetricName |-> n] :
        n \in {FTQ, FTQ1Y, FTQ52W, FTQ_USD, FTQ_EUR, FTQ_EUR_1W, FTQglob, FTQglobJapan,
               FX, FXEUR, VaR, STTHH, IRSensi, CIMSensiBOR}}
    \cup
    {[stranaNodeName |-> "FICASIRATFLO", rmRiskMetricName |-> n] : n \in {FTQ, FTQglobJapan}}

\* The mother metrics a call is made with: the keys of the rules, a name
\* without a rule, and a key in another letter case
MotherUniverse == {VaR, FTQ, IRSensi, FX, CIMSensiBOR, FTQglob, ftq}

SeqsUpTo(S, n) == UNION {[1..k -> S] : k \in 0..n}

InitResolver ==
    /\ MainIdle
    /\ data \in SeqsUpTo(RowUniverse, MaxRows)
    /\ rpc = "ready"
    /\ strana_node = ""
    /\ mother_metric = <<>>
    /\ result = <<>>

GetAllRelatedMetrics(node, mother) ==
    /\ rpc = "ready"
    /\ rpc' = "returned"
    /\ strana_node' = node
    /\ mother_metric' = mother
    /\ result' = get_all_related_metrics(data, node, mother)
    /\ UNCHANGED <<data, mainVars, auxVars>>

NextResolver == \E node \in Nodes, mother \in MotherUniverse : GetAllRelatedMetrics(node, mother)

Spec == InitResolver /\ [][NextResolver]_vars

\* ------------------------------------------------------------------------
\* Properties of the resolver
\* ------------------------------------------------------------------------

\* the pool of the call: the metric names of the node, and where each stands in it
Pool == all_metrics(data, strana_node)

PoolIndex(n) == IndexIn(Pool, n)

\* n equals the mother metric of the call, ignoring letter case
IsExact(n) == Lower(n) = Lower(mother_metric)

\* s is a tenor: digits followed by D, W, M or Y
IsTenor(s) ==
    /\ Len(s) >= 2
    /\ \A k \in 1..(Len(s) - 1) : IsDigit(s[k])
    /\ s[Len(s)] \in {"D", "W", "M", "Y"}

\* n carries a tenor
CarriesTenor(n) == \E i \in 1..Len(n), j \in 1..Len(n) : i < j /\ IsTenor(SubSeq(n, i, j))

\* n carries a bracketed three-letter currency code
CarriesCurrency(n) ==
    \E i \in 1..(Len(n) - 4) :
        /\ n[i] = "[" /\ n[i + 4] = "]"
        /\ \A k \in (i + 1)..(i + 3) : IsUpper(n[k])

\* the group of a name in the returned list
Group(n) ==
    IF IsExact(n) THEN 0
    ELSE IF CarriesTenor(n) THEN 1
    ELSE IF CarriesCurrency(n) THEN 2
    ELSE 3

\* C1: every returned name that equals the mother metric ignoring letter case
\* stands before every returned name that does not.
ExactMatchesFirst ==
    rpc = "returned" =>
        \A i \in DOMAIN result, j \in DOMAIN result :
            IsExact(result[i]) /\ ~IsExact(result[j]) => i < j

\* C1 witness: an exact match was returned before a name that preceded it in the pool
ExactMatchMovedFirst ==
    /\ rpc = "returned"
    /\ \E i \in DOMAIN result, j \in DOMAIN result :
           /\ IsExact(result[i]) /\ ~IsExact(result[j])
           /\ i < j
           /\ PoolIndex(result[j]) < PoolIndex(result[i])

\* The calendar duration of a tenor in twelfths of a day: D = 1 day, W = 7 days,
\* Y = 365 days, M = 1/12 year
CalendarDuration(tenor) ==
    LET value == ParseInt(SubSeq(tenor, 1, Len(tenor) - 1))
        unit == tenor[Len(tenor)]
    IN  CASE unit = "D" -> value * 12
          [] unit = "W" -> value * 7 * 12
          [] unit = "M" -> value * 365
          [] unit = "Y" -> value * 365 * 12

\* C2: of two returned names that carry a tenor and are not exact matches, the
\* one with the shorter calendar duration stands before the one with the longer.
TenorsByCalendarDuration ==
    rpc = "returned" =>
        \A i \in DOMAIN result, j \in DOMAIN result :
            /\ CarriesTenor(result[i]) /\ CarriesTenor(result[j])
            /\ ~IsExact(result[i]) /\ ~IsExact(result[j])
            /\ CalendarDuration(_extract_maturity(result[i]))
                   < CalendarDuration(_extract_maturity(result[j]))
            => i < j

\* C3: with a rule that has an include pattern, the returned set is the pool
\* names that match it and do not match the exclude pattern, whether or not
\* they contain the mother metric; otherwise it is the pool names that
\* contain the mother metric (and do not match an exclude pattern).
IncludeOverridesSubstring ==
    rpc = "returned" =>
        LET hasRule == mother_metric \in DOMAIN special_metric_rules
            rules == special_metric_rules[mother_metric]
            Excluded(m) == /\ hasRule
                           /\ rules.exclude_pattern.present
                           /\ re_search(rules.exclude_pattern, m, TRUE)
        IN  IF hasRule /\ rules.include_pattern.present
            THEN Range(result) = {m \in Range(Pool) :
                                     re_search(rules.include_pattern, m, TRUE) /\ ~Excluded(m)}
            ELSE Range(result) = {m \in Range(Pool) :
                                     Contains(Lower(m), Lower(mother_metric)) /\ ~Excluded(m)}

\* C3 witness: under a rule, a name that does not contain the mother metric was returned
IncludedWithoutSubstring ==
    /\ rpc = "returned"
    /\ mother_metric \in DOMAIN special_metric_rules
    /\ \E n \in Range(result) : ~Contains(Lower(n), Lower(mother_metric))

\* C4: the returned list is in four groups: exact matches, names with a tenor,
\* names with a currency code and no tenor in ascending order of the code,
\* the remaining names in ascending order of the name.
FourGroupsInOrder ==
    rpc = "returned" =>
        \A i \in DOMAIN result, j \in DOMAIN result :
            i < j =>
                /\ Group(result[i]) <= Group(result[j])
                /\ Group(result[i]) = 2 /\ Group(result[j]) = 2 =>
                       ~StrLess(_extract_currency(result[j]), _extract_currency(result[i]))
                /\ Group(result[i]) = 3 /\ Group(result[j]) = 3 =>
                       ~StrLess(result[j], result[i])

\* C4 witness: three names of three groups, one of them with a tenor and a
\* currency code, returned in another order than the pool's
ThreeGroupsReordered ==
    /\ rpc = "returned"
    /\ Len(result) = 3
    /\ Group(result[1]) < Group(result[2]) /\ Group(result[2]) < Group(result[3])
    /\ \E i \in DOMAIN result : CarriesTenor(result[i]) /\ CarriesCurrency(result[i])
    /\ result # Pool

\* C5: for a mother metric with a rule, a pool that holds the mother metric
\* name gives a list that holds it.
RuleKeepsMother ==
    /\ rpc = "returned"
    /\ mother_metric \in DOMAIN special_metric_rules
    /\ mother_metric \in Range(Pool)
    => mother_metric \in Range(result)

\* C6: for FTQ and IRSensi only the mother name and the mother name followed
\* by a tenor are returned.
OnlyMotherAndTenors ==
    rpc = "returned" /\ mother_metric \in {FTQ, IRSensi} =>
        \A n \in Range(result) :
            \/ n = mother_metric
            \/ /\ SubSeq(n, 1, Len(mother_metric)) = mother_metric
               /\ IsTenor(SubSeq(n, Len(mother_metric) + 1, Len(n)))

\* C7: a mother metric that differs from the call's only in letter case gives
\* the same set of related metrics.
MotherCaseInsensitive ==
    rpc = "returned" =>
        \A other \in MotherUniverse :
            Lower(other) = Lower(mother_metric) =>
                Range(get_all_related_metrics(data, strana_node, other)) = Range(result)

\* ========================================================================
\* Part 2: main() of src/main.py: the plots of a configuration, the PNL
\* attribution charts, the index page and the custom plots.
\*
\* Node names, metric names and file paths are strings here. The content of
\* output/index.html is a sequence of tokens: the pieces of HTML the code
\* searches for, replaces and writes.
\* ========================================================================

\* ------------------------------------------------------------------------
\* src/src/config.py
\* ------------------------------------------------------------------------

\* the metrics of one entry of a configuration: at most MaxMetrics
MaxMetrics == 2

\* the entries (metric_config) of a configuration, over all its nodes: at most MaxEntries
MaxEntries == 2

\* the first n elements of a list
FirstN(seq, n) == SubSeq(seq, 1, IF Len(seq) < n THEN Len(seq) ELSE n)

MetricConfig(mother_metrics, plot_types) ==
    [mother_metrics |-> mother_metrics, plot_types |-> plot_types]

NodeEntry(node, metrics_config) == [node |-> node, metrics_config |-> metrics_config]

\* get_default_config(): a dict, as the list of its items in insertion order.
\* The lists of mother metrics are cut to their first MaxMetrics names.
get_default_config ==
    <<NodeEntry("FICRATG10JGB",
          <<MetricConfig(FirstN(<<"CredBpv", "BASISSensiByCurrencyByPillar",
                                  "FX", "FXUSD", "FXEUR", "FXJPY",
                                  "FTQ", "FTQglobJapan">>, MaxMetrics),
                         <<"bar">>),
            MetricConfig(FirstN(<<"SOVFuture", "CredBpv", "BASISSensiByCurrencyByPillar",
                                  "FX", "FXUSD", "FXEUR", "FXJPY",
                                  "FTQglobJapan", "FTQglobJapan1M">>, MaxMetrics),
                         <<"time_series">>)>>),
      NodeEntry("FICASIRATFLO",
          <<MetricConfig(FirstN(<<"VaR">>, MaxMetrics), <<"time_series">>)>>)>>

valid_plot_types == {"bar", "time_series"}

\* Python values, as far as validate_config tells them apart
PyNone == [type |-> "NoneType"]

PyInt == [type |-> "int"]

PyStr(value) == [type |-> "str", value |-> value]

PyList(elems) == [type |-> "list", elems |-> elems]

\* a dict: the list of its items <<key, value>>, in insertion order
PyDict(items) == [type |-> "dict", items |-> items]

\* key in d
HasKey(d, key) == \E i \in DOMAIN d.items : d.items[i][1] = key

\* d[key]
Get(d, key) == d.items[CHOOSE i \in DOMAIN d.items : d.items[i][1] = key][2]

\* "for x in v" raises TypeError for a value that is not iterable
IsIterable(v) == v.type \in {"list", "str", "dict"}

\* the values "for x in v" goes through: the elements of a list, the keys of
\* a dict, the characters of a str (each a str of one character; which one
\* does not matter to validate_config, which tests isinstance(x, dict))
Elems(v) ==
    CASE v.type = "list" -> v.elems
      [] v.type = "dict" -> [i \in DOMAIN v.items |-> PyStr(v.items[i][1])]
      [] v.type = "str" -> [i \in 1..Len(v.value) |-> PyStr("c")]

\* set(v) raises TypeError for an element that is not hashable
IsHashable(v) == v.type \notin {"list", "dict"}

\* the outcome of a loop: the first exception raised in it, "ok" if none
FirstRaised(outcomes) ==
    LET raised == {i \in DOMAIN outcomes : outcomes[i] # "ok"}
    IN  IF raised = {} THEN "ok"
        ELSE outcomes[CHOOSE i \in raised : \A j \in raised : i <= j]

\* lines 79-92: the checks of one metric_config
metric_config_outcome(metric_config) ==
    IF metric_config.type # "dict" THEN "ValueError"
    ELSE IF ~HasKey(metric_config, "mother_metrics") \/ ~HasKey(metric_config, "plot_types")
    THEN "ValueError"
    ELSE IF Get(metric_config, "mother_metrics").type # "list" THEN "ValueError"
    ELSE IF Get(metric_config, "plot_types").type # "list" THEN "ValueError"
    ELSE LET plot_types == Get(metric_config, "plot_types").elems
             invalid_plot_types ==
                 {plot_types[i] : i \in DOMAIN plot_types} \ {PyStr(t) : t \in valid_plot_types}
         IN  IF \E i \in DOMAIN plot_types : ~IsHashable(plot_types[i]) THEN "TypeError"
             ELSE IF invalid_plot_types # {} THEN "ValueError"
             ELSE "ok"

\* lines 71-92: the checks of one node
node_config_outcome(node_config) ==
    IF node_config.type # "dict" THEN "ValueError"
    ELSE IF ~HasKey(node_config, "metrics_config") THEN "ValueError"
    ELSE LET metrics_config == Get(node_config, "metrics_config")
         IN  IF ~IsIterable(metrics_config) THEN "TypeError"
             ELSE FirstRaised([i \in DOMAIN Elems(metrics_config) |->
                                  metric_config_outcome(Elems(metrics_config)[i])])

\* validate_config(config) for a dict config: "True" when it returns True,
\* or the exception it raises
validate_config_outcome(config_dict) ==
    LET raised == FirstRaised([i \in DOMAIN config_dict.items |->
                                  node_config_outcome(config_dict.items[i][2])])
    IN  IF raised = "ok" THEN "True" ELSE raised

\* a configuration of nodes and entries as the Python dict it is
AsPyDict(cfg) ==
    PyDict([n \in DOMAIN cfg |->
        <<cfg[n].node,
          PyDict(<<<<"metrics_config",
                     PyList([k \in DOMAIN cfg[n].metrics_config |->
                         LET entry == cfg[n].metrics_config[k]
                         IN  PyDict(<<<<"mother_metrics",
                                        PyList([i \in DOMAIN entry.mother_metrics |->
                                                   PyStr(entry.mother_metrics[i])])>>,
                                      <<"plot_types",
                                        PyList([i \in DOMAIN entry.plot_types |->
                                                   PyStr(entry.plot_types[i])])>>>>)])>>>>)>>])

\* validate_config(config) returns True, for a configuration of nodes and
\* entries (it raises otherwise)
validate_config(cfg) == validate_config_outcome(AsPyDict(cfg)) = "True"

\* ------------------------------------------------------------------------
\* Strings in code-point order
\* ------------------------------------------------------------------------

\* The node names and metric names of the model, in the order of Python's <
SortedStrings ==
    <<"BASISSensiByCurrencyByPillar", "CredBpv", "FICASIRATFLO", "FICRATG10JGB",
      "FTQ", "FTQglobJapan", "FTQglobJapan1M", "FX", "FXEUR", "FXJPY", "FXUSD",
      "SOVFuture", "VaR">>

StringLess(a, b) == IndexIn(SortedStrings, a) < IndexIn(SortedStrings, b)

\* ",".join(a) < ",".join(b) for two lists of names: "," is below every
\* character of a name, so the joined strings compare as the lists do
JoinedLess(a, b) ==
    \E k \in 1..(Len(a) + 1) :
        /\ k <= Len(b)
        /\ \A i \in 1..(k - 1) : a[i] = b[i]
        /\ \/ k = Len(a) + 1
           \/ (k <= Len(a) /\ StringLess(a[k], b[k]))

\* ------------------------------------------------------------------------
\* Output paths (src/main.py)
\* ------------------------------------------------------------------------

\* create_bar_plot, lines 160-180: process_plots passes a list of three dates
BarPath(node, mother_metrics) ==
    LET date_suffix == "_multi_date"
        metrics_name_part == IF Len(mother_metrics) = 1 THEN mother_metrics[1]
                             ELSE IF Len(mother_metrics) > 1 THEN "multiple_metrics"
                             ELSE "metrics"
    IN  "output/" \o node \o "/" \o node \o "_" \o metrics_name_part \o "_bar"
            \o date_suffix \o ".html"

\* create_time_series_plots, lines 245-246
TimeSeriesPath(node, metric) ==
    "output/" \o node \o "/" \o node \o "_" \o metric \o "_timeseries.html"

\* ------------------------------------------------------------------------
\* HTML files as sequences of tokens
\* ------------------------------------------------------------------------

\* a piece of HTML that the code writes and never searches for
Text(t) == [kind |-> "text", href |-> "", text |-> t]

\* a metric card: the <a href> to a chart file and what the card displays.
\* href is the chart file the relative path of the card leads to.
Card(file, display) == [kind |-> "card", href |-> file, text |-> display]

\* the strings the code searches for
BodyEnd == [kind |-> "tag", href |-> "", text |-> "</body>"]
PmlStart == [kind |-> "marker", href |-> "", text |-> "<!-- PML_ATTRIBUTION_SECTION_START -->"]
PmlEnd == [kind |-> "marker", href |-> "", text |-> "<!-- PML_ATTRIBUTION_SECTION_END -->"]
CustomBegin == [kind |-> "marker", href |-> "", text |-> "<!-- BEGIN CUSTOM PLOTS SECTION -->"]
CustomEnd == [kind |-> "marker", href |-> "", text |-> "<!-- END CUSTOM PLOTS SECTION -->"]

\* str.find: the first position of tok, 0 when there is none (Python's -1)
Find(content, tok) ==
    IF tok \in Range(content)
    THEN CHOOSE i \in DOMAIN content :
             content[i] = tok /\ \A j \in 1..(i - 1) : content[j] # tok
    ELSE 0

\* str.replace(tok, repl): every occurrence
RECURSIVE ReplaceAll(_, _, _)
ReplaceAll(content, tok, repl) ==
    IF content = <<>> THEN <<>>
    ELSE (IF Head(content) = tok THEN repl ELSE <<Head(content)>>)
             \o ReplaceAll(Tail(content), tok, repl)

\* str.replace(tok, repl, 1): the first occurrence
ReplaceFirst(content, tok, repl) ==
    LET i == Find(content, tok)
    IN  IF i = 0 THEN content
        ELSE SubSeq(content, 1, i - 1) \o repl \o SubSeq(content, i + 1, Len(content))

\* sep.join(list)
RECURSIVE Join(_, _)
Join(list, sep) ==
    IF list = <<>> THEN ""
    ELSE IF Len(list) = 1 THEN list[1]
    ELSE list[1] \o sep \o Join(Tail(list), sep)

\* ------------------------------------------------------------------------
\* src/src/html_generator.py: HTMLGenerator
\* ------------------------------------------------------------------------

\* An entry of plot_files_info. metrics is the list of a bar plot, and the list
\* of the one metric name of a time-series plot (a str in the code).
PlotInfo(node, plot_type, metrics, output_file) ==
    [strana_node |-> node, plot_type |-> plot_type, metrics |-> metrics,
     output_file |-> output_file]

\* _group_plots_by_node: the plots of one node, in the order of plot_infos
PlotsOfNode(plot_infos, node) == SelectSeq(plot_infos, LAMBDA info : info.strana_node = node)

\* sorted(plots_by_node.keys())
RECURSIVE SortedNodes(_)
SortedNodes(nodes) ==
    IF nodes = {} THEN <<>>
    ELSE LET least == CHOOSE x \in nodes : \A y \in nodes : ~StringLess(y, x)
         IN  <<least>> \o SortedNodes(nodes \ {least})

\* A sort key of the plot type alone (a variant the properties must tell from
\* the key below)
PlotKeyLess_type_only(a, b) == a.plot_type = "bar" /\ b.plot_type = "time_series"

\* the keys of sorted_plots: (plot_type, the joined metrics); 'bar' < 'time_series'
PlotKeyLess(a, b) ==
    \/ a.plot_type = "bar" /\ b.plot_type = "time_series"
    \/ a.plot_type = b.plot_type /\ JoinedLess(a.metrics, b.metrics)

\* sorted(plots, key=...): stable
RECURSIVE sorted_plots(_)
sorted_plots(plots) ==
    IF plots = <<>> THEN <<>>
    ELSE LET front == sorted_plots(SubSeq(plots, 1, Len(plots) - 1))
             x == plots[Len(plots)]
             before == {i \in DOMAIN front : PlotKeyLess(x, front[i])}
             at == IF before = {} THEN Len(front) + 1
                   ELSE CHOOSE i \in before : \A j \in before : i <= j
         IN  SubSeq(front, 1, at - 1) \o <<x>> \o SubSeq(front, at, Len(front))

_generate_node_section(node, plots) ==
    LET sp == sorted_plots(plots)
        CardOf(info) ==
            Card(info.output_file,
                 (IF info.plot_type = "bar" THEN "Bar Plot" ELSE "Time Series")
                     \o " " \o Join(info.metrics, ", "))
    IN  <<Text("<section> " \o node)>> \o [i \in DOMAIN sp |-> CardOf(sp[i])]
            \o <<Text("</section>")>>

RECURSIVE NodeSections(_, _)
NodeSections(nodes, plot_infos) ==
    IF nodes = <<>> THEN <<>>
    ELSE _generate_node_section(Head(nodes), PlotsOfNode(plot_infos, Head(nodes)))
             \o NodeSections(Tail(nodes), plot_infos)

\* _generate_html_content(_group_plots_by_node(plot_infos), output_dir)
_generate_html_content(plot_infos) ==
    <<Text("<head> Risk Metrics Dashboard")>>
        \o NodeSections(SortedNodes({plot_infos[i].strana_node : i \in DOMAIN plot_infos}),
                        plot_infos)
        \o <<BodyEnd, Text("</html>")>>

\* generate_index_html: the file is opened with 'w' and written whole
generate_index_html(plot_infos) == FileOf(_generate_html_content(plot_infos))

\* ------------------------------------------------------------------------
\* src/src/pnl_visualization.py
\* ------------------------------------------------------------------------

\* the years of the PNL data, ascending
PnlYears == <<"2023", "2024">>

PnlFile(key) ==
    "output/Pnl Attribution/pnl_attribution_all_levels_cumulative_"
        \o (IF key = "All Years" THEN "all_years" ELSE key) \o ".html"

\* visualization_files of create_pnl_visualization for data of the given
\* years: a dict, as the list of its keys in insertion order (the years
\* ascending, then "All Years")
visualization_files(years) ==
    SelectSeq(PnlYears, LAMBDA y : y \in years) \o <<"All Years">>

\* sorted(visualization_files.keys(), key=lambda k: (str(k) != "All Years", k))
sorted_keys(keys) ==
    SelectSeq(keys, LAMBDA k : k = "All Years")
        \o SelectSeq(PnlYears, LAMBDA y : y \in Range(keys))

update_dashboard_html(html_file, keys) ==
    LET content == IF ~html_file.exists
                   THEN <<Text("<head> PML Visualization Dashboard"), PmlStart,
                          Text("<!-- Existing content will be replaced -->"), PmlEnd,
                          BodyEnd, Text("</html>")>>
                   ELSE html_file.content
        sk == sorted_keys(keys)
        full_new_section ==
            <<PmlStart, Text("<section> PML Attribution Analysis")>>
                \o [i \in DOMAIN sk |-> Card(PnlFile(sk[i]), sk[i])]
                \o <<Text("</section>"), PmlEnd>>
        start_idx == Find(content, PmlStart)
        end_idx == Find(content, PmlEnd)
    IN  FileOf(IF start_idx # 0 /\ end_idx # 0
               THEN SubSeq(content, 1, start_idx - 1) \o full_new_section
                        \o SubSeq(content, end_idx + 1, Len(content))
               ELSE IF BodyEnd \in Range(content)
               THEN ReplaceAll(content, BodyEnd, full_new_section \o <<BodyEnd>>)
               ELSE content \o full_new_section)

\* ------------------------------------------------------------------------
\* src/src/custom_plot_visualization.py
\* ------------------------------------------------------------------------

\* DEFAULT_CSV_DATASETS: the ids
DEFAULT_CSV_DATASETS == <<"IR Delta", "FTQ">>

CustomFile(dataset_id, name) ==
    "output/Custom_Plots/" \o dataset_id \o "/timeseries_" \o dataset_id \o "_" \o name \o ".html"

\* a dataset's CSV file. state: "ok", or why loading it fails; categories:
\* the product categories of its rows, in order of appearance; failing: the
\* plots ("overall" or a category) whose rendering raises
CsvFile(state, categories, failing) ==
    [state |-> state, categories |-> categories, failing |-> failing]

\* create_category_plots: the files of the categories whose plot was written
create_category_plots(csv, dataset_id) ==
    LET plotted == SelectSeq(csv.categories, LAMBDA c : c \notin csv.failing)
    IN  [i \in DOMAIN plotted |-> CustomFile(dataset_id, plotted[i])]

\* the category read back from a file name: parts[2] of the base name
CategoryOf(dataset_id, plot_file) ==
    LET named == {c \in {"bond", "swap"} : CustomFile(dataset_id, c) = plot_file}
    IN  IF named = {} THEN "Unknown" ELSE CHOOSE c \in named : TRUE

\* str.upper on the category names
Upper(category) ==
    IF category = "bond" THEN "BOND" ELSE IF category = "swap" THEN "SWAP" ELSE "UNKNOWN"

\* lines 352-387: the plot_configs of a dataset that was loaded and aggregated
plot_configs_of(csv, dataset_id) ==
    LET category_plot_files == create_category_plots(csv, dataset_id)
        category_configs ==
            [i \in DOMAIN category_plot_files |->
                [plot_html_file |-> category_plot_files[i],
                 metric_name |-> "CV Values - "
                     \o Upper(CategoryOf(dataset_id, category_plot_files[i]))]]
        overall_configs ==
            IF "overall" \in csv.failing THEN <<>>
            ELSE <<[plot_html_file |-> CustomFile(dataset_id, "overall"),
                    metric_name |-> "CV Values - Overall"]>>
    IN  category_configs \o overall_configs

\* what create_category_plots and create_overall_plot log of failed plots
plot_errors_of(csv) ==
    (IF \E i \in DOMAIN csv.categories : csv.categories[i] \in csv.failing
     THEN {"Failed to create plot for category"} ELSE {})
        \cup (IF "overall" \in csv.failing THEN {"Failed to create overall plot"} ELSE {})

\* a variant of process_csv_visualizations without the handler of
\* FileNotFoundError and without the catch-all handler
process_csv_outcome_uncaught(dataset_id, csv) ==
    IF csv.state = "missing_csv"
    THEN [kind |-> "raised", value |-> <<>>, log |-> {}]
    ELSE IF csv.state \in {"missing_column", "bad_date"}
    THEN [kind |-> "raised", value |-> <<>>, log |-> {"Error processing CSV file"}]
    ELSE IF csv.state = "aggregate_error"
    THEN [kind |-> "raised", value |-> <<>>,
          log |-> {"Unexpected error during data aggregation"}]
    ELSE [kind |-> "returned", value |-> plot_configs_of(csv, dataset_id),
          log |-> {"Finished processing visualizations"} \cup plot_errors_of(csv)]

\* process_csv_visualizations(csv_path, mapping_config, output_dir,
\* dataset_id): whether it returns or raises, the plot_configs it returns and
\* what it logs
process_csv_outcome(dataset_id, csv) ==
    IF csv.state = "missing_csv"
    THEN \* load_and_preprocess_csv raises FileNotFoundError (line 58)
         [kind |-> "returned", value |-> <<>>,
          log |-> {"Skipping dataset: Input CSV file not found"}]
    ELSE IF csv.state \in {"missing_column", "bad_date"}
    THEN \* raised inside the try of load_and_preprocess_csv, whose handler
         \* logs and raises Exception (lines 97-101)
         [kind |-> "returned", value |-> <<>>,
          log |-> {"Error processing CSV file", "Failed to process dataset"}]
    ELSE IF csv.state = "aggregate_error"
    THEN [kind |-> "returned", value |-> <<>>,
          log |-> {"Unexpected error during data aggregation", "Failed to process dataset"}]
    ELSE [kind |-> "returned", value |-> plot_configs_of(csv, dataset_id),
          log |-> {"Finished processing visualizations"} \cup plot_errors_of(csv)]

\* process_csv_visualizations of a dataset that loads, with rows of the
\* category bond: the plot of the category, then the overall plot; or of a
\* dataset whose CSV file is missing
process_csv_visualizations(dataset_id, loads) ==
    process_csv_outcome(dataset_id,
                        IF loads THEN CsvFile("ok", <<"bond">>, {})
                        ELSE CsvFile("missing_csv", <<>>, {})).value

\* update_main_html. The test for </body> (line 506) is outside the else of
\* line 503: it is made whether or not an existing section was replaced.
update_main_html(main_html_file, plot_configurations_list) ==
    LET content == IF main_html_file.exists THEN main_html_file.content
                   ELSE <<Text("<head> Dashboard"), BodyEnd, Text("</html>")>>
        cards == IF plot_configurations_list = <<>>
                 THEN <<Text("<p>No custom plots generated.</p>")>>
                 ELSE [i \in DOMAIN plot_configurations_list |->
                          Card(plot_configurations_list[i].plot_html_file,
                               plot_configurations_list[i].metric_name)]
        new_section_content ==
            <<Text("\n"), CustomBegin, Text("<section> Custom Plots")>> \o cards
                \o <<Text("</section>"), CustomEnd, Text("\n    ")>>
        start_index == Find(content, CustomBegin)
        end_index == Find(content, CustomEnd)
        replaced == IF start_index # 0 /\ end_index # 0
                    THEN SubSeq(content, 1, start_index - 1) \o new_section_content
                             \o SubSeq(content, end_index + 1, Len(content))
                    ELSE content
    IN  FileOf(IF BodyEnd \in Range(replaced)
               THEN ReplaceFirst(replaced, BodyEnd, new_section_content \o <<BodyEnd>>)
               ELSE replaced \o new_section_content)

\* no DataVisualizer call is modelled
ResolverIdle ==
    /\ data = <<>>
    /\ rpc = "idle"
    /\ strana_node = ""
    /\ mother_metric = <<>>
    /\ result = <<>>

\* ------------------------------------------------------------------------
\* process_plots (src/main.py, lines 96-290)
\* ------------------------------------------------------------------------

\* the positions <<node, entry>> of the two nested loops of process_plots
Positions(cfg) ==
    UNION {{<<n, k>> : k \in DOMAIN cfg[n].metrics_config} : n \in DOMAIN cfg}

PosLess(p, q) == p[1] < q[1] \/ (p[1] = q[1] /\ p[2] < q[2])

\* the position the loops reach after p; <<0, 0>> when they end
NextPos(cfg, p) ==
    LET later == {q \in Positions(cfg) : PosLess(p, q)}
    IN  IF later = {} THEN <<0, 0>>
        ELSE CHOOSE q \in later : \A r \in later : ~PosLess(r, q)

\* where control is once the loops stand at p: at the next entry, or, when
\* process_plots returns, back in main() before it writes the marker
PcAt(p) ==
    IF p # <<0, 0>> THEN "bar"
    ELSE IF caller = "main" THEN "write_marker" ELSE "returned"

EntryAt(p) == config[p[1]].metrics_config[p[2]]

NodeAt(p) == config[p[1]].node

\* lines 124-137 and create_bar_plot: the bar plot of the entry at hand.
\* create_grouped_bar_plots writes the file as its last step, or raises before.
CreateBarPlot(raises) ==
    /\ pc = "bar"
    /\ LET entry == EntryAt(pos)
           file == BarPath(NodeAt(pos), entry.mother_metrics)
       IN  IF "bar" \in Range(entry.plot_types) /\ entry.mother_metrics # <<>>
           THEN IF raises
                THEN /\ logged' = logged \cup {"Error creating grouped bar plot"}
                     /\ UNCHANGED <<written, plot_files_info>>
                ELSE /\ written' = written \cup {[file |-> file, by |-> <<"bar", pos[1], pos[2], 0>>]}
                     /\ plot_files_info' =
                            Append(plot_files_info,
                                   PlotInfo(NodeAt(pos), "bar", entry.mother_metrics, file))
                     /\ UNCHANGED logged
           ELSE /\ ~raises
                /\ UNCHANGED <<written, plot_files_info, logged>>
    /\ pc' = "time_series"
    /\ UNCHANGED <<config, caller, risk_csv, marker, skip_timeseries, index, pos,
                   futures, pending_futures, resolverVars, auxVars>>

\* lines 139-146 and create_time_series_plots up to line 255: one task per
\* mother metric is submitted to the pool; with no mother metric there is no
\* task, the loop of line 258 is not entered and the call returns
SubmitTimeSeries ==
    /\ pc = "time_series"
    /\ LET entry == EntryAt(pos)
           mm == entry.mother_metrics
       IN  IF "time_series" \in Range(entry.plot_types) /\ mm # <<>>
           THEN /\ futures' = [i \in DOMAIN mm |->
                                  [metric |-> mm[i],
                                   output_file |-> TimeSeriesPath(NodeAt(pos), mm[i]),
                                   state |-> "running"]]
                /\ pending_futures' = DOMAIN mm
                /\ pc' = "wait"
                /\ UNCHANGED pos
           ELSE /\ pos' = NextPos(config, pos)
                /\ pc' = PcAt(pos')
                /\ UNCHANGED <<futures, pending_futures>>
    /\ UNCHANGED <<config, caller, risk_csv, marker, skip_timeseries, plot_files_info,
                   written, index, logged, resolverVars, auxVars>>

\* generate_single_time_series_plot in a worker process: the chart is written
\* and the info returned
WorkerReturns(i) ==
    /\ pc = "wait"
    /\ i \in DOMAIN futures
    /\ futures[i].state = "running"
    /\ futures' = [futures EXCEPT ![i].state = "returned"]
    /\ written' = written \cup {[file |-> futures[i].output_file,
                                 by |-> <<"time_series", pos[1], pos[2], i>>]}
    /\ UNCHANGED <<config, pc, caller, risk_csv, marker, skip_timeseries, plot_files_info,
                   index, pos, pending_futures, logged, resolverVars, auxVars>>

\* generate_single_time_series_plot raises before it writes the chart
WorkerRaises(i) ==
    /\ pc = "wait"
    /\ i \in DOMAIN futures
    /\ futures[i].state = "running"
    /\ futures' = [futures EXCEPT ![i].state = "raised"]
    /\ UNCHANGED <<config, pc, caller, risk_csv, marker, skip_timeseries, plot_files_info,
                   written, index, pos, pending_futures, logged, resolverVars, auxVars>>

\* the orders in which a set can be iterated
Orders(S) == {o \in [1..Cardinality(S) -> S] : \A i, j \in DOMAIN o : o[i] = o[j] => i = j}

\* the pending tasks that are done
DoneFutures == {i \in pending_futures : futures[i].state # "running"}

\* A wait loop in which the error of one task drops the results of the tasks
\* handled with it (a variant the properties must tell from the loop below)
CollectDone_error_drops_results(order) ==
    /\ pc = "wait"
    /\ LET done == DoneFutures
           InfoOf(i) == PlotInfo(NodeAt(pos), "time_series", <<futures[i].metric>>,
                                 futures[i].output_file)
           returned == SelectSeq(order, LAMBDA i : futures[i].state = "returned")
           failed == \E i \in done : futures[i].state = "raised"
       IN  /\ done # {}
           /\ order \in Orders(done)
           /\ plot_files_info' = IF failed THEN plot_files_info
                                 ELSE plot_files_info
                                          \o [k \in DOMAIN returned |-> InfoOf(returned[k])]
           /\ logged' = IF failed
                        THEN logged \cup {"[ProcessPool] Error generating plot"}
                        ELSE logged
           /\ pending_futures' = pending_futures \ done
           /\ IF pending_futures' = {}
              THEN /\ pos' = NextPos(config, pos)
                   /\ pc' = PcAt(pos')
              ELSE UNCHANGED <<pos, pc>>
    /\ UNCHANGED <<config, caller, risk_csv, marker, skip_timeseries, written, index,
                   futures, resolverVars, auxVars>>

\* lines 258-290: wait() returns the pending tasks that are done (a wait that
\* times out with none done changes nothing); they are handled in the order
\* of the set, the results appended, the errors logged
CollectDone(order) ==
    /\ pc = "wait"
    /\ LET done == DoneFutures
           InfoOf(i) == PlotInfo(NodeAt(pos), "time_series", <<futures[i].metric>>,
                                 futures[i].output_file)
           returned == SelectSeq(order, LAMBDA i : futures[i].state = "returned")
       IN  /\ done # {}
           /\ order \in Orders(done)
           /\ plot_files_info' = plot_files_info \o [k \in DOMAIN returned |-> InfoOf(returned[k])]
           /\ logged' = IF \E i \in done : futures[i].state = "raised"
                        THEN logged \cup {"[ProcessPool] Error generating plot"}
                        ELSE logged
           /\ pending_futures' = pending_futures \ done
           /\ IF pending_futures' = {}
              THEN /\ pos' = NextPos(config, pos)
                   /\ pc' = PcAt(pos')
              ELSE UNCHANGED <<pos, pc>>
    /\ UNCHANGED <<config, caller, risk_csv, marker, skip_timeseries, written, index,
                   futures, resolverVars, auxVars>>

\* ------------------------------------------------------------------------
\* main() (src/main.py, lines 292-363)
\* ------------------------------------------------------------------------

\* lines 300-324: the configuration and the risk CSV are loaded. A failure of
\* load_csv (or of validate_config) is caught by the except of line 349,
\* which logs it and raises it again: main() ends there.
MainLoadData ==
    /\ pc = "main"
    /\ config' = get_default_config
    /\ IF ~validate_config(config') \/ risk_csv # "ok"
       THEN /\ logged' = logged \cup {"Error running visualization script"}
            /\ pc' = "raised"
            /\ UNCHANGED pos
       ELSE /\ UNCHANGED logged
            /\ IF marker
               THEN /\ pc' = "ask"
                    /\ UNCHANGED pos
               ELSE /\ pos' = NextPos(config', <<0, 0>>)
                    /\ pc' = PcAt(pos')
    /\ UNCHANGED <<caller, risk_csv, marker, skip_timeseries, plot_files_info, written,
                   index, futures, pending_futures, resolverVars, auxVars>>

\* lines 321-334: the marker exists and the user is asked
MainAsk(user_input) ==
    /\ pc = "ask"
    /\ skip_timeseries' = (user_input = "y")
    /\ IF skip_timeseries'
       THEN /\ pc' = "pnl"
            /\ UNCHANGED pos
       ELSE /\ pos' = NextPos(config, <<0, 0>>)
            /\ pc' = PcAt(pos')
    /\ UNCHANGED <<config, caller, risk_csv, marker, plot_files_info, written, index,
                   futures, pending_futures, logged, resolverVars, auxVars>>

\* lines 329-332: process_plots has returned
MainWriteMarker ==
    /\ pc = "write_marker"
    /\ marker' = TRUE
    /\ pc' = "pnl"
    /\ UNCHANGED <<config, caller, risk_csv, skip_timeseries, plot_files_info, written,
                   index, pos, futures, pending_futures, logged, resolverVars, auxVars>>

\* lines 336-342: create_pnl_visualization. Its input loads, with rows of the
\* given years: the charts are written and update_dashboard_html is called on
\* output/index.html. Or load_data raises: the error is logged.
MainPnl(loads, years) ==
    /\ pc = "pnl"
    /\ IF loads
       THEN LET keys == visualization_files(years)
            IN  /\ written' = written \cup
                       {[file |-> PnlFile(keys[i]), by |-> <<"pnl", 0, 0, i>>] : i \in DOMAIN keys}
                /\ index' = update_dashboard_html(index, keys)
                /\ UNCHANGED logged
       ELSE /\ logged' = logged \cup {"Error creating PNL Attribution visualization"}
            /\ UNCHANGED <<written, index>>
    /\ pc' = "index"
    /\ UNCHANGED <<config, caller, risk_csv, marker, skip_timeseries, plot_files_info,
                   pos, futures, pending_futures, resolverVars, auxVars>>

\* lines 344-347: generate_index_html; an IOError of the write is logged
MainIndex(io_error) ==
    /\ pc = "index"
    /\ IF io_error
       THEN /\ logged' = logged \cup {"Error writing index file"}
            /\ UNCHANGED index
       ELSE /\ index' = generate_index_html(plot_files_info)
            /\ UNCHANGED logged
    /\ pc' = "custom"
    /\ UNCHANGED <<config, caller, risk_csv, marker, skip_timeseries, plot_files_info,
                   written, pos, futures, pending_futures, resolverVars, auxVars>>

\* lines 353-363: run_all_custom_visualizations. loads[d]: dataset d loads;
\* a dataset that does not is logged and gives no plot.
MainCustom(loads) ==
    /\ pc = "custom"
    /\ LET ConfigsOf(d) == process_csv_visualizations(DEFAULT_CSV_DATASETS[d], loads[d])
           plot_configs == ConfigsOf(1) \o ConfigsOf(2)
       IN  /\ written' = written \cup
                  {[file |-> plot_configs[i].plot_html_file, by |-> <<"custom", 0, 0, i>>] :
                      i \in DOMAIN plot_configs}
           /\ index' = update_main_html(index, plot_configs)
           /\ logged' = IF \E d \in DOMAIN loads : ~loads[d]
                        THEN logged \cup {"Skipping dataset"}
                        ELSE logged
    /\ pc' = "done"
    /\ UNCHANGED <<config, caller, risk_csv, marker, skip_timeseries, plot_files_info,
                   pos, futures, pending_futures, resolverVars, auxVars>>

PlotsNext ==
    \/ \E raises \in BOOLEAN : CreateBarPlot(raises)
    \/ SubmitTimeSeries
    \/ \E i \in DOMAIN futures : WorkerReturns(i)
    \/ \E i \in DOMAIN futures : WorkerRaises(i)
    \/ \E order \in Orders(DoneFutures) : CollectDone(order)

\* A run of main(): the risk CSV is in any of its states, the marker and the
\* index page are there or not
InitMain ==
    /\ ResolverIdle
    /\ config = <<>>
    /\ pc = "main"
    /\ caller = "main"
    /\ risk_csv \in {"ok", "missing", "no_column", "bad_date"}
    /\ marker \in BOOLEAN
    /\ skip_timeseries = FALSE
    /\ plot_files_info = <<>>
    /\ written = {}
    /\ index \in {Absent, generate_index_html(<<>>)}
    /\ pos = <<0, 0>>
    /\ futures = <<>>
    /\ pending_futures = {}
    /\ logged = {}
    /\ AuxIdle

NextMain ==
    \/ MainLoadData
    \/ \E user_input \in {"y", "n"} : MainAsk(user_input)
    \/ PlotsNext
    \/ MainWriteMarker
    \/ \E loads \in BOOLEAN, years \in (SUBSET Range(PnlYears)) \ {{}} : MainPnl(loads, years)
    \/ \E io_error \in BOOLEAN : MainIndex(io_error)
    \/ \E loads \in [DOMAIN DEFAULT_CSV_DATASETS -> BOOLEAN] : MainCustom(loads)

SpecMain == InitMain /\ [][NextMain]_vars

\* ------------------------------------------------------------------------
\* process_plots over the configurations validate_config is given
\* ------------------------------------------------------------------------

\* the metric names of the configurations
PlotMetrics == {"FX", "VaR"}

\* the lists plot_types of the configurations
PlotTypeLists == {<<>>, <<"bar">>, <<"time_series">>, <<"bar", "time_series">>, <<"pie">>}

EntryUniverse ==
    {MetricConfig(m, t) : m \in SeqsUpTo(PlotMetrics, MaxMetrics), t \in PlotTypeLists}

\* the keys of a dict are distinct
NodeOrders == {<<>>} \cup {<<n>> : n \in Nodes}
                  \cup {o \in Nodes \X Nodes : o[1] # o[2]}

\* the configurations with the node keys o, of at most n entries
ConfigsOver(o, n) ==
    IF Len(o) = 0 THEN {<<>>}
    ELSE IF Len(o) = 1
    THEN {<<NodeEntry(o[1], e)>> : e \in SeqsUpTo(EntryUniverse, n)}
    ELSE UNION {{<<NodeEntry(o[1], e1), NodeEntry(o[2], e2)>> :
                    e1 \in [1..k -> EntryUniverse],
                    e2 \in SeqsUpTo(EntryUniverse, n - k)} : k \in 0..n}

\* the configurations of at most n entries
ConfigUniverse(n) == UNION {ConfigsOver(o, n) : o \in NodeOrders}

\* main.py lines 302-303 and 327: validate_config(config), which raises for
\* a configuration it rejects, then process_plots(visualizer, config, [])
ValidateConfig ==
    /\ pc = "validate"
    /\ IF validate_config(config)
       THEN /\ pos' = NextPos(config, <<0, 0>>)
            /\ pc' = PcAt(pos')
       ELSE /\ pc' = "invalid"
            /\ UNCHANGED pos
    /\ UNCHANGED <<config, caller, risk_csv, marker, skip_timeseries, plot_files_info,
                   written, index, futures, pending_futures, logged, resolverVars, auxVars>>

InitPlots ==
    /\ ResolverIdle
    /\ config \in ConfigUniverse(MaxEntries)
    /\ pc = "validate"
    /\ caller = "direct"
    /\ risk_csv = "ok"
    /\ marker = FALSE
    /\ skip_timeseries = FALSE
    /\ plot_files_info = <<>>
    /\ written = {}
    /\ index = Absent
    /\ pos = <<0, 0>>
    /\ futures = <<>>
    /\ pending_futures = {}
    /\ logged = {}
    /\ AuxIdle

NextPlots ==
    \/ ValidateConfig
    \/ PlotsNext

SpecPlots == InitPlots /\ [][NextPlots]_vars

\* ------------------------------------------------------------------------
\* Properties of main() and process_plots
\* ------------------------------------------------------------------------

\* C8: when the risk CSV is missing, lacks a column or holds a malformed
\* date, main() logs the error and goes on with the remaining stages: it
\* does not end with the exception.
RiskCsvErrorDoesNotEndMain == risk_csv # "ok" => pc # "raised"

\* the <a href> targets of the cards of a page
LinkedFiles(file) ==
    {file.content[i].href : i \in {j \in DOMAIN file.content : file.content[j].kind = "card"}}

\* C9: once main() has returned normally, output/index.html links every
\* chart file written during the run.
IndexLinksEveryChart ==
    pc = "done" => \A w \in written : w.file \in LinkedFiles(index)

\* C10: in a run of process_plots over a configuration validate_config
\* accepts, no two rendering calls write the same output path.
EachChartItsOwnFile ==
    \A w1, w2 \in written : w1.file = w2.file => w1.by = w2.by

\* the dict a returned task hands back
ResultOf(i) ==
    PlotInfo(NodeAt(pos), "time_series", <<futures[i].metric>>, futures[i].output_file)

\* the tasks a step of the wait loop handles
Handled == pending_futures \ pending_futures'

\* C11: in create_time_series_plots every submitted task is handled exactly
\* once, in any order of completion: a handled task has finished and never
\* becomes pending again; the handled tasks that returned add one entry each
\* to plot_files_info, after the entries already there; those that raised add
\* none and are logged; the call does not raise, and it ends only when no
\* task is pending.
EveryTaskHandledOnce ==
    [][pc = "wait" =>
        /\ pending_futures' \subseteq pending_futures
        /\ \A i \in Handled : futures[i].state # "running"
        /\ Len(plot_files_info') =
               Len(plot_files_info)
                   + Cardinality({i \in Handled : futures[i].state = "returned"})
        /\ SubSeq(plot_files_info', 1, Len(plot_files_info)) = plot_files_info
        /\ \A i \in Handled :
               futures[i].state = "returned" =>
                   \E k \in (Len(plot_files_info) + 1)..Len(plot_files_info') :
                       plot_files_info'[k] = ResultOf(i)
        /\ (\E i \in Handled : futures[i].state = "raised")
               => "[ProcessPool] Error generating plot" \in logged'
        /\ pc' \in {"wait", "bar", "write_marker", "returned"}
        /\ pc' # "wait" => pending_futures' = {}]_vars

\* a call has ended in which one task raised and another returned, and the
\* entry of the one that returned is in plot_files_info
OneTaskFailedOtherKept ==
    /\ pc = "returned"
    /\ pending_futures = {}
    /\ \E i, j \in DOMAIN futures :
           /\ futures[i].state = "raised"
           /\ futures[j].state = "returned"
           /\ \E k \in DOMAIN plot_files_info :
                  plot_files_info[k].output_file = futures[j].output_file

\* an order of the entries that knows nothing of their order of arrival:
\* by node, by plot type, by the list of metrics
InfoBefore(a, b) ==
    \/ StringLess(a.strana_node, b.strana_node)
    \/ /\ a.strana_node = b.strana_node
       /\ \/ a.plot_type = "bar" /\ b.plot_type = "time_series"
          \/ a.plot_type = b.plot_type /\ JoinedLess(a.metrics, b.metrics)

\* the entries of a list in that order
RECURSIVE CanonicalOrder(_)
CanonicalOrder(infos) ==
    IF infos = <<>> THEN <<>>
    ELSE LET k == CHOOSE i \in DOMAIN infos :
                      \A j \in DOMAIN infos : ~InfoBefore(infos[j], infos[i])
         IN  <<infos[k]>>
                 \o CanonicalOrder(SubSeq(infos, 1, k - 1) \o SubSeq(infos, k + 1, Len(infos)))

\* C12: the index page generate_index_html produces does not depend on the
\* order in which the worker tasks complete: the page of plot_files_info is
\* the page of the same entries put in an order that is independent of their
\* arrival, so two completion orders of the same successful tasks give the
\* same page.
IndexIndependentOfCompletionOrder ==
    generate_index_html(plot_files_info)
        = generate_index_html(CanonicalOrder(plot_files_info))

\* the tasks of one call completed in another order than the page lists them
CompletedOutOfPageOrder ==
    /\ pc = "returned"
    /\ \E k, l \in DOMAIN plot_files_info :
           /\ k < l
           /\ plot_files_info[k].plot_type = "time_series"
           /\ plot_files_info[l].plot_type = "time_series"
           /\ plot_files_info[k].strana_node = plot_files_info[l].strana_node
           /\ JoinedLess(plot_files_info[l].metrics, plot_files_info[k].metrics)
    /\ \E i, j \in DOMAIN futures :
           /\ i < j
           /\ futures[i].state = "returned"
           /\ futures[j].state = "returned"
           /\ \E k, l \in DOMAIN plot_files_info :
                  /\ l < k
                  /\ plot_files_info[k].output_file = futures[i].output_file
                  /\ plot_files_info[l].output_file = futures[j].output_file
                  /\ futures[i].output_file # futures[j].output_file

\* ------------------------------------------------------------------------
\* The dashboard file under repeated calls of update_dashboard_html
\* (src/src/pnl_visualization.py) and update_main_html
\* (src/src/custom_plot_visualization.py)
\* ------------------------------------------------------------------------

\* the pieces of a dashboard file: at most MaxTokens
MaxTokens == 3

\* the calls of each of the two functions: at most MaxCalls
MaxCalls == 2

\* what a dashboard file is made of
HtmlTokens == {Text("<h1>"), PmlStart, PmlEnd, CustomBegin, CustomEnd, BodyEnd}

\* the dashboard files: none, or any content of at most n pieces
DashboardFiles(n) == {Absent} \cup {FileOf(c) : c \in SeqsUpTo(HtmlTokens, n)}

\* a dict visualization_files with the keys S, as the list of its keys
KeysOf(S) == SelectSeq(PnlYears \o <<"All Years">>, LAMBDA k : k \in S)

KeySets == SUBSET (Range(PnlYears) \cup {"All Years"})

\* a call update_dashboard_html(html_file, visualization_files)
UpdateDashboardHtml(S) ==
    /\ pc = "html"
    /\ html_calls.update_dashboard_html < MaxCalls
    /\ index' = update_dashboard_html(index, KeysOf(S))
    /\ html_calls' = [html_calls EXCEPT !.update_dashboard_html = @ + 1]
    /\ UNCHANGED <<outcome, _EVENT_DATES_CACHE, auction_file, file_reads,
                   csv_files, dataset_index, all_plot_configs,
                   product_name, mapping_config>>
    /\ UNCHANGED <<config, pc, caller, risk_csv, marker, skip_timeseries, plot_files_info,
                   written, pos, futures, pending_futures, logged, resolverVars>>

\* a call update_main_html(main_html_file, plot_configurations_list), with
\* the plots of the datasets that load; lines 512-518: a failure of the
\* write is logged and the file is left as it is
UpdateMainHtml(loads, write_fails) ==
    /\ pc = "html"
    /\ html_calls.update_main_html < MaxCalls
    /\ LET plot_configurations_list ==
               process_csv_visualizations(DEFAULT_CSV_DATASETS[1], loads[1])
                   \o process_csv_visualizations(DEFAULT_CSV_DATASETS[2], loads[2])
       IN  IF write_fails
           THEN /\ logged' = logged \cup {"Failed to write updated content"}
                /\ UNCHANGED index
           ELSE /\ index' = update_main_html(index, plot_configurations_list)
                /\ UNCHANGED logged
    /\ html_calls' = [html_calls EXCEPT !.update_main_html = @ + 1]
    /\ UNCHANGED <<outcome, _EVENT_DATES_CACHE, auction_file, file_reads,
                   csv_files, dataset_index, all_plot_configs,
                   product_name, mapping_config>>
    /\ UNCHANGED <<config, pc, caller, risk_csv, marker, skip_timeseries, plot_files_info,
                   written, pos, futures, pending_futures, resolverVars>>

InitHtml ==
    /\ ResolverIdle
    /\ config = <<>>
    /\ pc = "html"
    /\ caller = "direct"
    /\ risk_csv = "ok"
    /\ marker = FALSE
    /\ skip_timeseries = FALSE
    /\ plot_files_info = <<>>
    /\ written = {}
    /\ index \in DashboardFiles(MaxTokens)
    /\ pos = <<0, 0>>
    /\ futures = <<>>
    /\ pending_futures = {}
    /\ logged = {}
    /\ AuxIdle

NextHtml ==
    \/ \E S \in KeySets : UpdateDashboardHtml(S)
    \/ \E loads \in [DOMAIN DEFAULT_CSV_DATASETS -> BOOLEAN], write_fails \in BOOLEAN :
           UpdateMainHtml(loads, write_fails)

SpecHtml == InitHtml /\ [][NextHtml]_vars

\* the occurrences of a piece in a content
Count(content, tok) == Cardinality({i \in DOMAIN content : content[i] = tok})

\* the file holds exactly one section between the two markers
OneSection(file, start, stop) ==
    /\ Count(file.content, start) = 1
    /\ Count(file.content, stop) = 1
    /\ Find(file.content, start) < Find(file.content, stop)

\* C13: update_dashboard_html is idempotent: for any dashboard file and any
\* visualization files a second call with the same arguments leaves the
\* content of the first, and after any number of calls the file holds
\* exactly one PML_ATTRIBUTION section between its markers.
DashboardUpdateIdempotent ==
    /\ \A S \in KeySets :
           LET once == update_dashboard_html(index, KeysOf(S))
           IN  update_dashboard_html(once, KeysOf(S)) = once
    /\ html_calls.update_dashboard_html > 0 /\ html_calls.update_main_html = 0
           => OneSection(index, PmlStart, PmlEnd)

\* C14: update_main_html keeps the custom plots under a single section: a
\* call on a file that holds one section between the BEGIN/END CUSTOM PLOTS
\* SECTION markers replaces it, and the file still holds exactly one.
CustomSectionReplacedNotAdded ==
    [][(/\ html_calls'.update_main_html > html_calls.update_main_html
        /\ OneSection(index, CustomBegin, CustomEnd))
           => OneSection(index', CustomBegin, CustomEnd)]_vars

\* ------------------------------------------------------------------------
\* validate_config over configuration dictionaries of any content
\* (src/src/config.py)
\* ------------------------------------------------------------------------

\* values given as plot_types
RawPlotTypes ==
    {PyList(<<>>), PyList(<<PyStr("bar")>>), PyList(<<PyStr("bar"), PyStr("time_series")>>),
     PyList(<<PyStr("pie")>>), PyList(<<PyList(<<PyStr("bar")>>)>>), PyList(<<PyNone>>),
     PyStr("bar"), PyNone}

\* values given as mother_metrics
RawMotherMetrics == {PyList(<<>>), PyList(<<PyStr("FX")>>), PyStr("FX"), PyNone}

\* values given as entries of metrics_config
RawMetricConfigs ==
    {PyDict(<<<<"mother_metrics", m>>, <<"plot_types", t>>>>) :
         m \in RawMotherMetrics, t \in RawPlotTypes}
    \cup {PyDict(<<<<"mother_metrics", PyList(<<PyStr("FX")>>)>>>>),
          PyDict(<<<<"plot_types", PyList(<<PyStr("bar")>>)>>>>),
          PyDict(<<>>), PyStr("FX"), PyNone}

\* values given as metrics_config: lists of at most n entries, and values
\* that are not lists
RawMetricsConfigs(n) ==
    {PyList(e) : e \in SeqsUpTo(RawMetricConfigs, n)}
    \cup {PyNone, PyInt, PyStr(""), PyStr("ab"), PyDict(<<>>)}

\* values given for a node
RawNodeConfigs(n) ==
    {PyDict(<<<<"metrics_config", m>>>>) : m \in RawMetricsConfigs(n)}
    \cup {PyDict(<<>>), PyList(<<>>), PyNone}

\* the configuration dictionaries: no node, one node, or two nodes the second
\* of which has no entry; and the default configuration
RawConfigs(n) ==
    {PyDict(<<>>), AsPyDict(get_default_config)}
    \cup {PyDict(<<<<"FICRATG10JGB", c>>>>) : c \in RawNodeConfigs(n)}
    \cup {PyDict(<<<<"FICRATG10JGB", c>>, <<"FICASIRATFLO", d>>>>) :
             c \in RawNodeConfigs(n), d \in RawNodeConfigs(0)}

\* a call VisualizationConfig.validate_config(config)
ValidateConfigCall ==
    /\ pc = "validate_config"
    /\ outcome' = validate_config_outcome(config)
    /\ pc' = "validated"
    /\ UNCHANGED <<config, caller, risk_csv, marker, skip_timeseries, plot_files_info,
                   written, index, pos, futures, pending_futures, logged, resolverVars,
                   html_calls, _EVENT_DATES_CACHE, auction_file, file_reads,
                   csv_files, dataset_index, all_plot_configs,
                   product_name, mapping_config>>

InitConfig ==
    /\ ResolverIdle
    /\ config \in RawConfigs(MaxEntries)
    /\ pc = "validate_config"
    /\ caller = "direct"
    /\ risk_csv = "ok"
    /\ marker = FALSE
    /\ skip_timeseries = FALSE
    /\ plot_files_info = <<>>
    /\ written = {}
    /\ index = Absent
    /\ pos = <<0, 0>>
    /\ futures = <<>>
    /\ pending_futures = {}
    /\ logged = {}
    /\ AuxIdle

NextConfig == ValidateConfigCall

SpecConfig == InitConfig /\ [][NextConfig]_vars

\* what the claim asks of a configuration: every node maps to a dict with a
\* metrics_config whose entries are dicts with list-valued mother_metrics and
\* plot_types, and plot types drawn from {bar, time_series}
WellFormedEntry(metric_config) ==
    /\ metric_config.type = "dict"
    /\ HasKey(metric_config, "mother_metrics")
    /\ HasKey(metric_config, "plot_types")
    /\ Get(metric_config, "mother_metrics").type = "list"
    /\ Get(metric_config, "plot_types").type = "list"
    /\ \A i \in DOMAIN Get(metric_config, "plot_types").elems :
           Get(metric_config, "plot_types").elems[i] \in {PyStr("bar"), PyStr("time_series")}

WellFormedConfig(config_dict) ==
    \A n \in DOMAIN config_dict.items :
        LET node_config == config_dict.items[n][2]
        IN  /\ node_config.type = "dict"
            /\ HasKey(node_config, "metrics_config")
            /\ IsIterable(Get(node_config, "metrics_config"))
            /\ \A k \in DOMAIN Elems(Get(node_config, "metrics_config")) :
                   WellFormedEntry(Elems(Get(node_config, "metrics_config"))[k])

\* C15: validate_config has exactly two outcomes for a configuration
\* dictionary: it returns True when the configuration is well formed and
\* raises ValueError otherwise; it returns True on get_default_config().
ValidateConfigTwoOutcomes ==
    pc = "validated" =>
        /\ outcome = (IF WellFormedConfig(config) THEN "True" ELSE "ValueError")
        /\ config = AsPyDict(get_default_config) => outcome = "True"

-----------------------------------------------------------------------------
\* load_event_dates (main.py), called several times in one process while
\* Input/Auction Date.csv may be replaced between the calls

\* bound on the rows of Input/Auction Date.csv
MaxDates == 2

\* a cell of the EventDate column: a text that pd.to_datetime parses to the
\* date (y, m, d), or a text it rejects ("not a date")
DateCell(y, m, d) == [parses |-> TRUE, y |-> y, m |-> m, d |-> d]

NotADate == [parses |-> FALSE, y |-> 0, m |-> 0, d |-> 0]

EventDateCells == {DateCell(2023, 3, 16), DateCell(2022, 12, 1), NotADate}

\* what a call gave: the list it returned, or an exception
Returned(value) == [kind |-> "returned", value |-> value]

Raised == [kind |-> "raised", value |-> <<>>]

\* no call was made yet
NotCalled == [kind |-> "none", value |-> <<>>]

\* datetime(y, m, d)
datetime(y, m, d) == <<y, m, d>>

\* datetime.__lt__
DateLess(a, b) ==
    \/ a[1] < b[1]
    \/ a[1] = b[1] /\ a[2] < b[2]
    \/ a[1] = b[1] /\ a[2] = b[2] /\ a[3] < b[3]

\* the list the three fallback returns build
default_dates == <<datetime(2023, 3, 14), datetime(2023, 3, 16)>>

\* pd.to_datetime(date_str).to_pydatetime()
to_pydatetime(cell) == datetime(cell.y, cell.m, cell.d)

\* list.sort() of datetimes
RECURSIVE SortDates(_)
SortDates(dates) ==
    IF dates = <<>> THEN <<>>
    ELSE LET rest == SortDates(Tail(dates))
             before == SelectSeq(rest, LAMBDA x : ~DateLess(Head(dates), x) /\ x # Head(dates))
             after == SelectSeq(rest, LAMBDA x : DateLess(Head(dates), x) \/ x = Head(dates))
         IN  before \o <<Head(dates)>> \o after

\* the states of Input/Auction Date.csv: absent, without the column
\* EventDate, or with the column and up to n rows
AuctionFiles(n) ==
    {MissingFile, [state |-> "no_column", rows |-> <<>>]}
        \cup {[state |-> "csv", rows |-> r] : r \in SeqsUpTo(EventDateCells, n)}

\* a variant of load_event_dates that stores the fallback dates in the cache
load_event_dates_caching_defaults(cache, file) ==
    IF ~cache.is_none
    THEN [result |-> Returned(cache.value), cache |-> cache, reads |-> 0, log |-> {}]
    ELSE IF file.state = "csv" /\ \A i \in DOMAIN file.rows : file.rows[i].parses
    THEN LET event_dates == SortDates([i \in DOMAIN file.rows |-> to_pydatetime(file.rows[i])])
         IN  [result |-> Returned(event_dates), cache |-> Cached(event_dates), reads |-> 1,
              log |-> {"Loaded event dates"}]
    ELSE [result |-> Returned(default_dates), cache |-> Cached(default_dates),
          reads |-> IF file.state = "missing" THEN 0 ELSE 1,
          log |-> {"Error loading event dates from Auction Date file"}]

\* a variant of load_event_dates without the sort and without the try block
load_event_dates_unsorted_unguarded(cache, file) ==
    IF ~cache.is_none
    THEN [result |-> Returned(cache.value), cache |-> cache, reads |-> 0, log |-> {}]
    ELSE IF file.state = "missing"
    THEN [result |-> Returned(default_dates), cache |-> cache, reads |-> 0,
          log |-> {"Auction Date file not found"}]
    ELSE IF file.state = "no_column"
    THEN [result |-> Returned(default_dates), cache |-> cache, reads |-> 1,
          log |-> {"EventDate column not found in Auction Date file"}]
    ELSE IF \E i \in DOMAIN file.rows : ~file.rows[i].parses
    THEN [result |-> Raised, cache |-> cache, reads |-> 1, log |-> {}]
    ELSE LET event_dates == [i \in DOMAIN file.rows |-> to_pydatetime(file.rows[i])]
         IN  [result |-> Returned(event_dates), cache |-> Cached(event_dates), reads |-> 1,
              log |-> {"Loaded event dates"}]

\* load_event_dates(): what it returns (or "raised"), the new value of
\* _EVENT_DATES_CACHE, how often it calls pd.read_csv, and what it logs
load_event_dates(cache, file) ==
    IF ~cache.is_none
    THEN [result |-> Returned(cache.value), cache |-> cache, reads |-> 0, log |-> {}]
    ELSE IF file.state = "missing"
    THEN [result |-> Returned(default_dates), cache |-> cache, reads |-> 0,
          log |-> {"Auction Date file not found"}]
    ELSE IF file.state = "no_column"
    THEN [result |-> Returned(default_dates), cache |-> cache, reads |-> 1,
          log |-> {"EventDate column not found in Auction Date file"}]
    ELSE IF \E i \in DOMAIN file.rows : ~file.rows[i].parses
    THEN \* pd.to_datetime raises inside the try block: except Exception
         [result |-> Returned(default_dates), cache |-> cache, reads |-> 1,
          log |-> {"Error loading event dates from Auction Date file"}]
    ELSE LET event_dates == SortDates([i \in DOMAIN file.rows |-> to_pydatetime(file.rows[i])])
         IN  [result |-> Returned(event_dates), cache |-> Cached(event_dates), reads |-> 1,
              log |-> {"Loaded event dates"}]

\* a call load_event_dates(); logged holds what this call logged
LoadEventDates ==
    /\ pc = "events"
    /\ LET call == load_event_dates(_EVENT_DATES_CACHE, auction_file)
       IN  /\ file_reads + call.reads <= MaxCalls
           /\ outcome' = call.result
           /\ _EVENT_DATES_CACHE' = call.cache
           /\ file_reads' = file_reads + call.reads
           /\ logged' = call.log
    /\ UNCHANGED <<config, pc, caller, risk_csv, marker, skip_timeseries, plot_files_info,
                   written, index, pos, futures, pending_futures, resolverVars,
                   html_calls, auction_file, csv_files, dataset_index, all_plot_configs,
                   product_name, mapping_config>>

\* between two calls the file is created, removed or rewritten
ReplaceAuctionFile(file) ==
    /\ pc = "events"
    /\ auction_file # file
    /\ auction_file' = file
    /\ UNCHANGED <<config, pc, caller, risk_csv, marker, skip_timeseries, plot_files_info,
                   written, index, pos, futures, pending_futures, logged, resolverVars,
                   html_calls, outcome, _EVENT_DATES_CACHE, file_reads,
                   csv_files, dataset_index, all_plot_configs,
                   product_name, mapping_config>>

InitEvents ==
    /\ ResolverIdle
    /\ config = get_default_config
    /\ pc = "events"
    /\ caller = "direct"
    /\ risk_csv = "ok"
    /\ marker = FALSE
    /\ skip_timeseries = FALSE
    /\ plot_files_info = <<>>
    /\ written = {}
    /\ index = Absent
    /\ pos = <<0, 0>>
    /\ futures = <<>>
    /\ pending_futures = {}
    /\ logged = {}
    /\ html_calls = [update_dashboard_html |-> 0, update_main_html |-> 0]
    /\ outcome = NotCalled
    /\ _EVENT_DATES_CACHE = NoCache
    /\ auction_file \in AuctionFiles(MaxDates)
    /\ file_reads = 0
    /\ csv_files = <<>>
    /\ dataset_index = 0
    /\ all_plot_configs = <<>>
    /\ product_name = NoName
    /\ mapping_config = <<>>

NextEvents ==
    \/ LoadEventDates
    \/ \E file \in AuctionFiles(MaxDates) : ReplaceAuctionFile(file)

SpecEvents == InitEvents /\ [][NextEvents]_vars

\* the file can be loaded: it has the column and every cell is a date
Loadable(file) ==
    file.state = "csv" /\ \A i \in DOMAIN file.rows : file.rows[i].parses

\* C16: load_event_dates memoizes: once a list loaded from the file is in
\* the cache every later call returns that list without reading the file,
\* whatever the file has become; a fallback leaves the cache empty, so the
\* cache only ever holds a loaded list and a call with an empty cache goes
\* to the file again.
LoadEventDatesMemoizes ==
    [][auction_file' = auction_file =>
        /\ ~_EVENT_DATES_CACHE.is_none =>
               /\ outcome' = Returned(_EVENT_DATES_CACHE.value)
               /\ file_reads' = file_reads
               /\ _EVENT_DATES_CACHE' = _EVENT_DATES_CACHE
        /\ _EVENT_DATES_CACHE.is_none /\ Loadable(auction_file) =>
               /\ outcome'.kind = "returned" /\ _EVENT_DATES_CACHE' = Cached(outcome'.value)
               /\ file_reads' = file_reads + 1
        /\ _EVENT_DATES_CACHE.is_none /\ ~Loadable(auction_file) =>
               /\ _EVENT_DATES_CACHE' = NoCache
               /\ file_reads' = file_reads + (IF auction_file = MissingFile THEN 0 ELSE 1)]_vars

\* a list was loaded and cached, the file was then replaced by one holding
\* other dates, and a later call still returned the cached list
CachedListOutlivesFile ==
    /\ ~_EVENT_DATES_CACHE.is_none
    /\ outcome = Returned(_EVENT_DATES_CACHE.value)
    /\ logged = {}
    /\ Loadable(auction_file)
    /\ SortDates([i \in DOMAIN auction_file.rows |-> to_pydatetime(auction_file.rows[i])]) # outcome.value

-----------------------------------------------------------------------------
\* the skip prompt and the marker file of main()

\* the entries of the configuration that ask for a grouped bar plot
BarPositions ==
    {p \in Positions(config) :
        "bar" \in Range(EntryAt(p).plot_types) /\ EntryAt(p).mother_metrics # <<>>}

\* the (entry, metric) pairs of the configuration that ask for a time-series plot
TimeSeriesTasks ==
    {t \in Positions(config) \X (1..MaxMetrics) :
        /\ "time_series" \in Range(EntryAt(t[1]).plot_types)
        /\ t[2] \in DOMAIN EntryAt(t[1]).mother_metrics}

\* C18: a run of main() in which the user answered 'y' to the skip prompt
\* skips only the time-series plots: by the time it returns, every grouped
\* bar plot of the configuration was attempted in that run, that is, its
\* file was written or its failure was logged.
SkipKeepsBarPlots ==
    pc = "done" /\ skip_timeseries =>
        \A p \in BarPositions :
            \/ \E w \in written : w.by = <<"bar", p[1], p[2], 0>>
            \/ "Error creating grouped bar plot" \in logged

\* C19: the marker file tells that the time-series plots are done: when
\* main() writes output/timeseries_done.marker, every time-series plot of the
\* configuration has been generated in the run, its file written by a task
\* that returned.
MarkerMeansTimeSeriesDone ==
    [][~marker /\ marker' =>
        \A t \in TimeSeriesTasks :
            \E w \in written : w.by = <<"time_series", t[1][1], t[1][2], t[2]>>]_vars

-----------------------------------------------------------------------------
\* run_all_custom_visualizations (custom_plot_visualization.py), called
\* alone on the CSV files of DEFAULT_CSV_DATASETS

\* the product categories of a CSV file, in order of appearance
CategoryLists == {<<"bond">>, <<"bond", "swap">>}

CsvFiles ==
    {CsvFile(state, <<>>, {}) :
        state \in {"missing_csv", "missing_column", "bad_date", "aggregate_error"}}
        \cup UNION {{CsvFile("ok", categories, failing) :
                        failing \in SUBSET (Range(categories) \cup {"overall"})} :
                    categories \in CategoryLists}

\* lines 551-567: one iteration of the for loop over DEFAULT_CSV_DATASETS.
\* An exception of process_csv_visualizations would leave the function.
ProcessDataset ==
    /\ pc = "custom_loop"
    /\ dataset_index < Len(DEFAULT_CSV_DATASETS)
    /\ LET dataset_id == DEFAULT_CSV_DATASETS[dataset_index + 1]
           call == process_csv_outcome(dataset_id, csv_files[dataset_index + 1])
       IN  /\ outcome' = [kind |-> call.kind, value |-> call.value]
           /\ logged' = logged \cup {<<dataset_id, m>> : m \in call.log}
           /\ written' = written \cup
                  {[file |-> call.value[i].plot_html_file,
                    by |-> <<"custom", dataset_index + 1, 0, i>>] : i \in DOMAIN call.value}
           /\ IF call.kind = "raised"
              THEN /\ pc' = "custom_raised"
                   /\ UNCHANGED <<dataset_index, all_plot_configs>>
              ELSE /\ all_plot_configs' = all_plot_configs \o call.value
                   /\ dataset_index' = dataset_index + 1
                   /\ pc' = IF dataset_index' < Len(DEFAULT_CSV_DATASETS)
                            THEN "custom_loop" ELSE "update_main_html"
    /\ UNCHANGED <<config, caller, risk_csv, marker, skip_timeseries, plot_files_info,
                   index, pos, futures, pending_futures, resolverVars,
                   html_calls, _EVENT_DATES_CACHE, auction_file, file_reads, csv_files,
                   product_name, mapping_config>>

\* lines 569-597: the call of update_main_html that follows the loop; an
\* IOError of its write is logged inside update_main_html
RunUpdateMainHtml(write_fails) ==
    /\ pc = "update_main_html"
    /\ html_calls' = [html_calls EXCEPT !.update_main_html = @ + 1]
    /\ IF write_fails
       THEN /\ logged' = logged \cup {<<"index.html", "Failed to write updated content">>}
            /\ UNCHANGED index
       ELSE /\ index' = update_main_html(index, all_plot_configs)
            /\ UNCHANGED logged
    /\ pc' = "custom_done"
    /\ UNCHANGED <<config, caller, risk_csv, marker, skip_timeseries, plot_files_info,
                   written, pos, futures, pending_futures, resolverVars,
                   outcome, _EVENT_DATES_CACHE, auction_file, file_reads,
                   csv_files, dataset_index, all_plot_configs,
                   product_name, mapping_config>>

InitCustom ==
    /\ ResolverIdle
    /\ config = get_default_config
    /\ pc = "custom_loop"
    /\ caller = "direct"
    /\ risk_csv = "ok"
    /\ marker = FALSE
    /\ skip_timeseries = FALSE
    /\ plot_files_info = <<>>
    /\ written = {}
    /\ index \in {Absent, generate_index_html(<<>>)}
    /\ pos = <<0, 0>>
    /\ futures = <<>>
    /\ pending_futures = {}
    /\ logged = {}
    /\ html_calls = [update_dashboard_html |-> 0, update_main_html |-> 0]
    /\ outcome = NotCalled
    /\ _EVENT_DATES_CACHE = NoCache
    /\ auction_file = MissingFile
    /\ file_reads = 0
    /\ csv_files \in [DOMAIN DEFAULT_CSV_DATASETS -> CsvFiles]
    /\ dataset_index = 0
    /\ all_plot_configs = <<>>
    /\ product_name = NoName
    /\ mapping_config = <<>>

NextCustom ==
    \/ ProcessDataset
    \/ \E write_fails \in BOOLEAN : RunUpdateMainHtml(write_fails)

SpecCustom == InitCustom /\ [][NextCustom]_vars

\* the error messages process_csv_visualizations logs when it gives up a dataset
DatasetErrors == {"Skipping dataset: Input CSV file not found", "Failed to process dataset"}

\* C20: process_csv_visualizations never raises: a dataset whose CSV file is
\* missing, lacks a required column or fails otherwise to load is logged and
\* gives an empty list of plot configurations; run_all_custom_visualizations
\* goes on with the next dataset of DEFAULT_CSV_DATASETS and, after the last
\* one, calls update_main_html.
DatasetFailureIsContained ==
    [][/\ pc = "custom_loop" =>
            LET d == dataset_index + 1
            IN  /\ outcome'.kind = "returned"
                /\ dataset_index' = d
                /\ all_plot_configs' = all_plot_configs \o outcome'.value
                /\ csv_files[d].state # "ok" =>
                       /\ outcome'.value = <<>>
                       /\ \E m \in DatasetErrors : <<DEFAULT_CSV_DATASETS[d], m>> \in logged'
                /\ pc' = IF d < Len(DEFAULT_CSV_DATASETS) THEN "custom_loop"
                         ELSE "update_main_html"
       /\ pc = "update_main_html" =>
            /\ dataset_index = Len(DEFAULT_CSV_DATASETS)
            /\ html_calls'.update_main_html = html_calls.update_main_html + 1
            /\ pc' = "custom_done"]_vars

\* the first dataset could not be loaded, the second one was processed and
\* its plots were handed to update_main_html
LaterDatasetProcessedAfterFailure ==
    /\ pc = "custom_done"
    /\ csv_files[1].state = "missing_column"
    /\ csv_files[2].state = "ok"
    /\ html_calls.update_main_html = 1
    /\ <<"IR Delta", "Failed to process dataset">> \in logged
    /\ all_plot_configs # <<>>
    /\ \A i \in DOMAIN all_plot_configs :
           all_plot_configs[i].plot_html_file \in LinkedFiles(index)

-----------------------------------------------------------------------------
\* get_product_category (custom_plot_visualization.py, inside
\* load_and_preprocess_csv), applied to one product name under one of the
\* two mapping configurations

\* bound on the parts a product name is put together from
MaxParts == 2

bond == <<"b", "o", "n", "d">>

bondfuture == bond \o <<"f", "u", "t", "u", "r", "e">>

xone_ == <<"x", "o", "n", "e", "_">>

irdswap == <<"i", "r", "d", "s", "w", "a", "p">>

repo == <<"r", "e", "p", "o">>

\* a dict entry category: [patterns]
MappingEntry(category, patterns) == [category |-> category, patterns |-> patterns]

\* the dicts in the order of their keys, which is the order items() yields
MAPPING_CONFIG_SET1 ==
    <<MappingEntry("bond", <<bond, xone_ \o bond, <<"s", "l">> \o bond>>),
      MappingEntry("future", <<bondfuture, xone_ \o bondfuture>>),
      MappingEntry("irdswap", <<irdswap, xone_ \o irdswap>>),
      MappingEntry("repo", <<repo>>)>>

MAPPING_CONFIG_SET2 ==
    <<MappingEntry("future", <<bondfuture, xone_ \o bondfuture>>),
      MappingEntry("bond", <<bond, xone_ \o bond>>)>>

\* a str value, and a value of the column that is not a str (a NaN cell)
StrName(text) == [is_str |-> TRUE, text |-> text]

NotAStr == [is_str |-> FALSE, text |-> <<>>]

\* str.strip()
RECURSIVE Strip(_)
Strip(s) ==
    IF s = <<>> THEN s
    ELSE IF Head(s) = " " THEN Strip(Tail(s))
    ELSE IF s[Len(s)] = " " THEN Strip(SubSeq(s, 1, Len(s) - 1))
    ELSE s

\* get_product_category(product_name), with the mapping_config of the
\* enclosing call: the category of the first entry one of whose patterns
\* occurs in the stripped, lower-cased name
get_product_category(name, mapping) ==
    IF ~name.is_str THEN "other"
    ELSE LET product_name_lower == Lower(Strip(name.text))
             matching == {k \in DOMAIN mapping :
                             \E i \in DOMAIN mapping[k].patterns :
                                 Contains(product_name_lower, Lower(mapping[k].patterns[i]))}
         IN  IF matching = {} THEN "other"
             ELSE mapping[CHOOSE k \in matching : \A j \in matching : k <= j].category

\* the parts of the product names
NameParts == {bond, bondfuture, xone_, <<"s", "l">>, irdswap, repo,
              <<"B", "o", "n", "d">>, <<" ">>, <<"c", "a", "s", "h">>}

RECURSIVE Concat(_)
Concat(parts) == IF parts = <<>> THEN <<>> ELSE Head(parts) \o Concat(Tail(parts))

\* values of the column Global Product Name
ProductNames(n) == {StrName(Concat(parts)) : parts \in SeqsUpTo(NameParts, n)} \cup {NotAStr}

\* a call get_product_category(product_name)
GetProductCategory ==
    /\ pc = "get_product_category"
    /\ outcome' = get_product_category(product_name, mapping_config)
    /\ pc' = "categorized"
    /\ UNCHANGED <<config, caller, risk_csv, marker, skip_timeseries, plot_files_info,
                   written, index, pos, futures, pending_futures, logged, resolverVars,
                   html_calls, _EVENT_DATES_CACHE, auction_file, file_reads,
                   csv_files, dataset_index, all_plot_configs, product_name, mapping_config>>

InitCategory ==
    /\ ResolverIdle
    /\ config = get_default_config
    /\ pc = "get_product_category"
    /\ caller = "direct"
    /\ risk_csv = "ok"
    /\ marker = FALSE
    /\ skip_timeseries = FALSE
    /\ plot_files_info = <<>>
    /\ written = {}
    /\ index = Absent
    /\ pos = <<0, 0>>
    /\ futures = <<>>
    /\ pending_futures = {}
    /\ logged = {}
    /\ html_calls = [update_dashboard_html |-> 0, update_main_html |-> 0]
    /\ outcome = "none"
    /\ _EVENT_DATES_CACHE = NoCache
    /\ auction_file = MissingFile
    /\ file_reads = 0
    /\ csv_files = <<>>
    /\ dataset_index = 0
    /\ all_plot_configs = <<>>
    /\ product_name \in ProductNames(MaxParts)
    /\ mapping_config \in {MAPPING_CONFIG_SET1, MAPPING_CONFIG_SET2}

NextCategory == GetProductCategory

SpecCategory == InitCategory /\ [][NextCategory]_vars

\* some pattern of the configuration occurs in the name as the function sees it
MatchesSomePattern(name, mapping) ==
    /\ name.is_str
    /\ \E k \in DOMAIN mapping : \E i \in DOMAIN mapping[k].patterns :
           Contains(Lower(Strip(name.text)), Lower(mapping[k].patterns[i]))

\* C21: under MAPPING_CONFIG_SET1 and MAPPING_CONFIG_SET2 a product name
\* equal to a pattern listed under a category is mapped to that category (so
\* bondfuture and xone_bondfuture are mapped to future under both), and a
\* name in which no pattern occurs is mapped to other.
PatternMapsToItsCategory ==
    pc = "categorized" =>
        /\ \A k \in DOMAIN mapping_config : \A i \in DOMAIN mapping_config[k].patterns :
               product_name = StrName(mapping_config[k].patterns[i])
                   => outcome = mapping_config[k].category
        /\ ~MatchesSomePattern(product_name, mapping_config) => outcome = "other"

=============================================================================
